---- MODULE Spec2Model ----
(***************************************************************************)
(* Model of the pre-verify mod installer of scripts/mods/client:           *)
(* FicsitAPIClient.get_mod_with_dependencies, DependencyResolver,          *)
(* ModScanner, ModDownloader and PreVerifyInstaller of                     *)
(* mod_installer_core.py.                                                  *)
(***************************************************************************)
EXTENDS Integers, Sequences, FiniteSets, TLC

\* ------------------------------------------------------------------------
\* Bounds of the model
\* ------------------------------------------------------------------------
MaxInput == 2       \* longest list of requested mod references
MaxEdges == 2       \* most dependency entries a resolver catalog reports in total
MaxRunEdges == 1    \* most dependency entries a catalog of an installer run reports in total
MaxFlaws == 1       \* most catalog entries of an installer run that are not plain installable
MaxRuns == 2        \* most runs of the installer in a row

\* ------------------------------------------------------------------------
\* Values
\* ------------------------------------------------------------------------
None == "None"
SML == "SML"
Ids == {"SML", "A", "B"}
DepthCeiling == 50

RangeOf(s) == {s[i] : i \in 1..Len(s)}

NoDup(s) == \A i, j \in 1..Len(s) : i # j => s[i] # s[j]

SeqsUpTo(S, n) == UNION {[1..k -> S] : k \in 0..n}

Perms(S) == {s \in [1..Cardinality(S) -> S] : RangeOf(s) = S}

RECURSIVE SumLen(_, _)
SumLen(f, S) ==
    IF S = {} THEN 0
    ELSE LET x == CHOOSE y \in S : TRUE IN Len(f[x].deps) + SumLen(f, S \ {x})

\* ------------------------------------------------------------------------
\* The remote catalog: per mod reference the latest version (None when the
\* lookup gives no version), the dependency entries of that version, whether
\* it has a Windows target and whether a compatibility state is "Broken".
\* ------------------------------------------------------------------------
DepLists == {s \in SeqsUpTo(Ids, MaxEdges) : NoDup(s)}

\* an entry without a version answers nothing else that the resolver reads
\* but its dependency entries
CatalogEntries ==
    {e \in [version : {None, "1.0"}, deps : DepLists, windows : BOOLEAN, broken : BOOLEAN] :
        e.version = None => (e.windows /\ ~e.broken)}

Flawed(e) == e.version = None \/ ~e.windows \/ e.broken

BrokenWarning == "BROKEN - incompatible with current game version"

\* FicsitAPIClient.get_mod_with_dependencies: (version, download_url,
\* dependencies without SML, compatibility_warning)
get_mod_with_dependencies(cat, ref) ==
    LET e == cat[ref] IN
    [version |-> e.version,
     download_url |-> IF e.windows THEN "url" ELSE None,
     dependencies |-> SelectSeq(e.deps, LAMBDA d : d # SML),
     compatibility_warning |-> IF e.broken THEN BrokenWarning ELSE None]

\* ResolvedMod.is_broken ("BROKEN" in compatibility_warning)
is_broken(m) == m.compatibility_warning # None /\ m.compatibility_warning = BrokenWarning

\* ResolvedMod built in resolve_all from a successful lookup
MakeResolvedMod(ref, r) ==
    [mod_reference |-> ref,
     version |-> r.version,
     download_url |-> r.download_url,
     dependencies |-> r.dependencies,
     has_windows_target |-> r.download_url # None,
     compatibility_warning |-> r.compatibility_warning]

NotFoundError == "Mod not found on ficsit.app"

\* ------------------------------------------------------------------------
\* State
\* ------------------------------------------------------------------------
VARIABLES
    catalog,        \* what the remote catalog answers, fixed during a run
    mod_references, \* the requested list
    pc,             \* position of the run
    cache,          \* DependencyResolver._cache: reference -> ResolvedMod
    errors,         \* DependencyResolver._resolution_errors: reference -> text
    to_process,     \* work queue of resolve_all
    all_needed,     \* set all_needed of resolve_all
    queried,        \* references looked up in the catalog, in call order
    enqueuedBy,     \* reference -> the references it appended to to_process
    resolved_list,  \* list returned by resolve_all (references, in order)
    disk,           \* the Mods directory: reference -> its directory
    resolved_mods,  \* PreVerifyInstaller.resolved_mods, in insertion order
    gap_analysis,   \* PreVerifyInstaller.gap_analysis
    phases,         \* phase results of the current run, in order
    overall,        \* overall_success returned by the run (None while running)
    install_idx,    \* position of phase4_install_missing in mods_to_install
    failed_mods,    \* failed_mods of phase4_install_missing
    downloads,      \* references download_and_install was called for, in order
    scans,          \* number of scan_installed calls of the current run
    finished,       \* overall results of the completed runs, in order
    disk_before,    \* the Mods directory as it was when the current run started
    last_call,      \* the last direct call of a scanner, downloader or cleanup method
    cli,            \* the run of FicsitCLI.install_mods
    gui,            \* ModInstallerApp: is_installing, the Tk event queue, the worker threads
    server          \* the run of install.py: its list, counters and temp_downloads

resolverVars == <<cache, errors, to_process, all_needed, queried, enqueuedBy, resolved_list>>

installerVars == <<disk, resolved_mods, gap_analysis, phases, overall, install_idx,
                   failed_mods, downloads, scans, finished, disk_before>>

directVars == <<last_call, cli, gui, server>>

vars == <<catalog, mod_references, pc, resolverVars, installerVars, directVars>>

EmptyMap == [x \in {} |-> None]

Put(f, k, v) == [x \in (DOMAIN f) \cup {k} |-> IF x = k THEN v ELSE f[x]]

\* ------------------------------------------------------------------------
\* DependencyResolver._topological_sort
\* ------------------------------------------------------------------------
RECURSIVE visit(_, _, _, _)
RECURSIVE visitEach(_, _, _, _, _)

\* the loop "for dep in ...: visit(dep, depth)" from position i on
visitEach(c, refs, i, depth, st) ==
    IF i > Len(refs) THEN st
    ELSE visitEach(c, refs, i + 1, depth, visit(c, refs[i], depth, st))

visit(c, ref, depth, st) ==
    IF ref \in st.visited \/ depth > DepthCeiling THEN st
    ELSE LET s1 == [st EXCEPT !.visited = @ \cup {ref}]
             s2 == IF ref \in DOMAIN c
                   THEN visitEach(c, c[ref].dependencies, 1, depth + 1, s1)
                   ELSE s1
         IN  IF ref \in RangeOf(s2.result) THEN s2
             ELSE [s2 EXCEPT !.result = Append(@, ref)]

\* faulty variant of the ordering: the dependencies are not visited
topological_sort_flat(c, mod_refs) ==
    LET s0 == [visited |-> {}, result |-> <<>>]
        s1 == IF SML \in RangeOf(mod_refs) THEN visit(EmptyMap, SML, 0, s0) ELSE s0
    IN  visitEach(EmptyMap, mod_refs, 1, 0, s1).result

topological_sort(c, mod_refs) ==
    LET s0 == [visited |-> {}, result |-> <<>>]
        s1 == IF SML \in RangeOf(mod_refs) THEN visit(c, SML, 0, s0) ELSE s0
    IN  visitEach(c, mod_refs, 1, 0, s1).result

\* ------------------------------------------------------------------------
\* DependencyResolver.resolve_all
\* ------------------------------------------------------------------------
\* lines 748-753: clear the caches, seed all_needed and the queue
ResolveBegin(refs) ==
    /\ cache' = EmptyMap
    /\ errors' = EmptyMap
    /\ all_needed' = {SML}
    /\ to_process' = refs
    /\ queried' = <<>>
    /\ enqueuedBy' = [x \in DOMAIN catalog |-> {}]
    /\ resolved_list' = <<>>

\* the dependencies the loop of lines 792-795 appends to the queue
RECURSIVE Enqueue(_, _, _, _)
Enqueue(deps, i, c, q) ==
    IF i > Len(deps) THEN q
    ELSE IF deps[i] \notin DOMAIN c /\ deps[i] \notin RangeOf(q)
         THEN Enqueue(deps, i + 1, c, Append(q, deps[i]))
         ELSE Enqueue(deps, i + 1, c, q)

\* "if version is None" (line 768), after the faulty variant that lets every
\* answer pass
lookup_failed_never(r) == FALSE

lookup_failed(r) == r.version = None

\* faulty variant of the cache test: nothing counts as resolved
already_resolved_never(c, ref) == FALSE

\* "if mod_ref in self._cache" (line 758)
already_resolved(c, ref) == ref \in DOMAIN c

\* faulty variant of the skip: the resolved head is tested but stays queued
skip_cached_keep(q) == q

\* the queue after "mod_ref = to_process.pop(0)" and the "continue" of a
\* resolved reference (lines 756-759)
skip_cached(q) == Tail(q)

\* one iteration of "while to_process" (lines 755-795)
ResolveIteration ==
    /\ to_process # <<>>
    /\ LET mod_ref == Head(to_process)
           rest == Tail(to_process)
       IN  IF already_resolved(cache, mod_ref)
           THEN /\ to_process' = skip_cached(to_process)
                /\ UNCHANGED <<cache, errors, all_needed, queried, enqueuedBy>>
           ELSE LET r == get_mod_with_dependencies(catalog, mod_ref) IN
                /\ queried' = Append(queried, mod_ref)
                /\ IF lookup_failed(r)
                   THEN /\ errors' = Put(errors, mod_ref, NotFoundError)
                        /\ to_process' = rest
                        /\ UNCHANGED <<cache, all_needed, enqueuedBy>>
                   ELSE LET resolved == MakeResolvedMod(mod_ref, r)
                            c2 == Put(cache, mod_ref, resolved)
                            q2 == Enqueue(r.dependencies, 1, c2, rest)
                        IN  /\ errors' = IF is_broken(resolved)
                                         THEN Put(errors, mod_ref, r.compatibility_warning)
                                         ELSE errors
                            /\ cache' = c2
                            /\ to_process' = q2
                            /\ all_needed' = all_needed \cup {mod_ref}
                                               \cup (RangeOf(q2) \ RangeOf(rest))
                            /\ enqueuedBy' = [enqueuedBy EXCEPT
                                                ![mod_ref] = RangeOf(q2) \ RangeOf(rest)]
    /\ UNCHANGED resolved_list

\* the references of a long dependency chain: Chain[i] depends on Chain[i+1]
Chain ==
    <<
      "m00", "m01", "m02", "m03", "m04", "m05", "m06", "m07", "m08", "m09",
      "m10", "m11", "m12", "m13", "m14", "m15", "m16", "m17", "m18", "m19",
      "m20", "m21", "m22", "m23", "m24", "m25", "m26", "m27", "m28", "m29",
      "m30", "m31", "m32", "m33", "m34", "m35", "m36", "m37", "m38", "m39",
      "m40", "m41", "m42", "m43", "m44", "m45", "m46", "m47", "m48", "m49",
      "m50", "m51", "m52", "m53", "m54", "m55", "m56", "m57", "m58", "m59"
    >>

\* the references of S along the chain
ChainSorted(S) == SelectSeq(<<SML>> \o Chain, LAMBDA x : x \in S)

Rotate(s, k) == [i \in 1..Len(s) |-> s[((i + k - 1) % Len(s)) + 1]]

Reverse(s) == [i \in 1..Len(s) |-> s[Len(s) + 1 - i]]

\* list(all_needed) (line 798): the order of the elements of a set is not
\* defined. Every order for a set of the references of Ids; for the larger
\* set of a long chain the orders along the chain and against it, from every
\* starting point.
list_of_set(S) ==
    IF S \subseteq Ids THEN Perms(S)
    ELSE LET s == ChainSorted(S) IN
         {Rotate(s, k) : k \in 0..(Len(s) - 1)}
            \cup {Reverse(Rotate(s, k)) : k \in 0..(Len(s) - 1)}

\* faulty variant of the returned list: unresolved references stay in it
resolved_in_order_all(c, ordered) == ordered

\* "[self._cache[ref] for ref in ordered if ref in self._cache]" (line 800)
resolved_in_order(c, ordered) == SelectSeq(ordered, LAMBDA ref : ref \in DOMAIN c)

\* lines 797-800: order all_needed and keep the references that are in the
\* cache
ResolveReturn ==
    /\ to_process = <<>>
    /\ \E p \in list_of_set(all_needed) :
          resolved_list' = resolved_in_order(cache, topological_sort(cache, p))
    /\ UNCHANGED <<cache, errors, to_process, all_needed, queried, enqueuedBy>>

\* ------------------------------------------------------------------------
\* Specification of the resolver alone: resolve_all called on any list of
\* at most MaxInput references against any catalog of at most MaxEdges
\* dependency entries.
\* ------------------------------------------------------------------------
ResolverCatalogs ==
    {c \in [Ids -> {e \in CatalogEntries : e.windows}] : SumLen(c, Ids) <= MaxEdges}

Absent == [exists |-> FALSE, files |-> {}]

NoGapAnalysis ==
    [performed |-> FALSE, needed_mods |-> <<>>, installed_mods |-> EmptyMap,
     missing_mods |-> <<>>, invalid_mods |-> <<>>, valid_mods |-> <<>>]

\* no InstallResult yet
NoInstall ==
    [success |-> FALSE, message |-> None, dir |-> Absent, at |-> "none",
     downloaded |-> FALSE, size |-> 0, temp_dir |-> "none", extract_dir |-> "none",
     files_installed |-> 0]

\* no method of the scanner, the downloader or the cleanup was called yet
NoCall ==
    [op |-> "none", refs |-> <<>>, content |-> {}, before |-> [x \in Ids |-> Absent],
     result |-> NoInstall, scan |-> EmptyMap, out1 |-> <<>>, out2 |-> <<>>,
     phase |-> [phase_name |-> "none", success |-> FALSE, message |-> "none"],
     status |-> [installed |-> FALSE, valid |-> FALSE],
     tree |-> "none", source_dir |-> "none"]

\* install_mods of FicsitCLI is not running
CliIdle ==
    [pc |-> "idle", available |-> TRUE, idx |-> 0, successful |-> <<>>,
     failed_with_errors |-> EmptyMap, diagnostics |-> <<>>, log |-> <<>>, ret |-> None]

\* ModInstallerApp after __init__ (line 65): nothing is being installed
GuiIdle ==
    [is_installing |-> FALSE, queue |-> <<>>, workers |-> <<>>, refused |-> FALSE]

\* install.py before main: no list is loaded, nothing was attempted,
\* temp_downloads holds no archive and no extraction directory
ServerIdle ==
    [listed |-> <<>>, mods |-> <<>>, attempted |-> <<>>, returned |-> <<>>,
     success_count |-> 0, fail_count |-> 0,
     temp |-> [x \in Ids |-> [smod |-> FALSE, extract_dir |-> FALSE]],
     exit_status |-> -1]

InstallerIdle ==
    /\ disk = [x \in Ids |-> Absent]
    /\ disk_before = disk
    /\ resolved_mods = <<>>
    /\ gap_analysis = NoGapAnalysis
    /\ phases = <<>>
    /\ overall = None
    /\ install_idx = 0
    /\ failed_mods = <<>>
    /\ downloads = <<>>
    /\ scans = 0
    /\ finished = <<>>

InitResolver ==
    /\ catalog \in ResolverCatalogs
    /\ mod_references \in SeqsUpTo(Ids, MaxInput)
    /\ pc = "idle"
    /\ cache = EmptyMap
    /\ errors = EmptyMap
    /\ all_needed = {}
    /\ to_process = <<>>
    /\ queried = <<>>
    /\ enqueuedBy = [x \in Ids |-> {}]
    /\ resolved_list = <<>>
    /\ InstallerIdle
    /\ last_call = NoCall
    /\ cli = CliIdle
    /\ gui = GuiIdle
    /\ server = ServerIdle

RBegin ==
    /\ pc = "idle"
    /\ ResolveBegin(mod_references)
    /\ pc' = "resolving"
    /\ UNCHANGED <<catalog, mod_references, installerVars>>
    /\ UNCHANGED directVars

RStep ==
    /\ pc = "resolving"
    /\ ResolveIteration
    /\ UNCHANGED <<catalog, mod_references, pc, installerVars>>
    /\ UNCHANGED directVars

RReturn ==
    /\ pc = "resolving"
    /\ ResolveReturn
    /\ pc' = "resolved"
    /\ UNCHANGED <<catalog, mod_references, installerVars>>
    /\ UNCHANGED directVars

NextResolver == RBegin \/ RStep \/ RReturn

SpecResolver == InitResolver /\ [][NextResolver]_vars

\* ------------------------------------------------------------------------
\* resolve_all on dependency chains longer than the depth ceiling of the
\* ordering: Chain[1] depends on Chain[2], ... up to Chain[n]; the last one
\* may depend on the first (a cycle) and its lookup may fail.
\* ------------------------------------------------------------------------
MaxOver == 2    \* the longest chain has DepthCeiling + 1 + MaxOver references

ChainLengths == {DepthCeiling + 1 + k : k \in 0..MaxOver}

ChainCatalog(n, cyclic, last_fails) ==
    [x \in {Chain[i] : i \in 1..n} |->
        LET i == CHOOSE k \in 1..n : Chain[k] = x IN
        [version |-> IF i = n /\ last_fails THEN None ELSE "1.0",
         deps |-> IF i < n THEN <<Chain[i + 1]>>
                  ELSE IF cyclic THEN <<Chain[1]>> ELSE <<>>,
         windows |-> TRUE,
         broken |-> FALSE]]

ChainInputs(n) ==
    {<<Chain[1]>>, <<Chain[1], Chain[1]>>, <<Chain[n], Chain[1]>>, <<Chain[n \div 2]>>}

InitChain ==
    /\ \E n \in ChainLengths : \E cyclic, last_fails \in BOOLEAN :
          /\ catalog = ChainCatalog(n, cyclic, last_fails)
          /\ mod_references \in ChainInputs(n)
    /\ pc = "idle"
    /\ cache = EmptyMap
    /\ errors = EmptyMap
    /\ all_needed = {}
    /\ to_process = <<>>
    /\ queried = <<>>
    /\ enqueuedBy = [x \in DOMAIN catalog |-> {}]
    /\ resolved_list = <<>>
    /\ InstallerIdle
    /\ last_call = NoCall
    /\ cli = CliIdle
    /\ gui = GuiIdle
    /\ server = ServerIdle

\* resolve_all on the catalogs of SpecResolver and on the long chains
SpecClosure == (InitResolver \/ InitChain) /\ [][NextResolver]_vars

\* the catalogs that differ in what steers the loop of resolve_all: which
\* lookups fail and what the successful ones depend on
LoopCatalogs ==
    {c \in ResolverCatalogs :
        \A x \in Ids : ~c[x].broken /\ (c[x].version = None => c[x].deps = <<>>)}

InitLoop == InitResolver /\ catalog \in LoopCatalogs

\* the loop of resolve_all and its return are steps of one thread: each is
\* taken when it can be
FairResolver == InitLoop /\ [][NextResolver]_vars /\ WF_vars(NextResolver)

\* ------------------------------------------------------------------------
\* ModScanner
\* ------------------------------------------------------------------------
Kinds == {"uplugin", "pak", "other"}

DirStates == {Absent} \cup {[exists |-> TRUE, files |-> f] : f \in SUBSET Kinds}

\* faulty variant of _check_mod_directory: only the manifest counts
check_mod_directory_manifest_only(dir) ==
    LET has_uplugin == "uplugin" \in dir.files
        pak_count == IF "pak" \in dir.files THEN 1 ELSE 0
    IN  [installed |-> TRUE,
         valid |-> has_uplugin,
         has_uplugin |-> has_uplugin,
         pak_count |-> pak_count,
         message |-> IF has_uplugin THEN "Valid" ELSE "Missing .uplugin file"]

\* ModScanner._check_mod_directory
check_mod_directory(dir) ==
    LET has_uplugin == "uplugin" \in dir.files
        pak_count == IF "pak" \in dir.files THEN 1 ELSE 0
        is_valid == has_uplugin \/ pak_count > 0
    IN  [installed |-> TRUE,
         valid |-> is_valid,
         has_uplugin |-> has_uplugin,
         pak_count |-> pak_count,
         message |-> IF ~is_valid THEN "Missing .uplugin and no pak files"
                     ELSE IF ~has_uplugin THEN "Missing .uplugin file (may still work)"
                     ELSE IF pak_count = 0 THEN "No pak files found (content-less mod?)"
                     ELSE "Valid"]

\* ModScanner.scan_installed: a status for every directory of the Mods directory
scan_installed(d) ==
    [ref \in {x \in DOMAIN d : d[x].exists} |-> check_mod_directory(d[ref])]

\* ------------------------------------------------------------------------
\* ModDownloader
\* ------------------------------------------------------------------------
\* line 1017: a download below this many bytes is refused
MinDownloadSize == 1000

\* the sizes of the downloaded file the model distinguishes
DownloadSizes == {0, MinDownloadSize - 1, MinDownloadSize, MinDownloadSize + 1}

\* a scratch directory is "none" (never created), "present" or "removed"

\* the try block of _extract_and_install (lines 1075-1108) for the destination
\* directory dir and an archive that unpacks to the files of content: how it
\* ends (raised is None for a return), the number it returns and the
\* destination it leaves
extract_body(dir, content) ==
    \* zipfile.ZipFile / extractall raise: the destination is not touched
    {[raised |-> e, at |-> "extract", files_count |-> 0, dir |-> dir, extract_dir |-> "present"] :
        e \in {"BadZipFile", "Exception"}}
    \cup
    \* shutil.rmtree of the old destination (line 1100) raises partway
    {[raised |-> "Exception", at |-> "rmtree", files_count |-> 0,
      dir |-> [exists |-> TRUE, files |-> f], extract_dir |-> "present"] :
        f \in IF dir.exists THEN SUBSET dir.files ELSE {}}
    \cup
    \* shutil.copytree (line 1103) raises: the old destination is gone, the
    \* new one is missing or holds the files copied so far
    {[raised |-> "Exception", at |-> "copytree", files_count |-> 0, dir |-> d,
      extract_dir |-> "present"] :
        d \in {Absent} \cup {[exists |-> TRUE, files |-> f] : f \in SUBSET content}}
    \cup
    \* the copy went through: the files of the destination are counted
    {[raised |-> None, at |-> "return", files_count |-> Cardinality(content),
      dir |-> [exists |-> TRUE, files |-> content], extract_dir |-> "present"]}

\* faulty variant of the finally block: the extraction directory is left
extract_finally_skipped(o) == o

\* the finally block of _extract_and_install (lines 1110-1112)
extract_finally(o) == [o EXCEPT !.extract_dir = "removed"]

\* ModDownloader._extract_and_install
extract_and_install(dir, content) ==
    \* tempfile.mkdtemp (line 1073) raises: nothing was created
    {[raised |-> "Exception", at |-> "mkdtemp", files_count |-> 0, dir |-> dir,
      extract_dir |-> "none"]}
    \cup {extract_finally(o) : o \in extract_body(dir, content)}

\* faulty variant of the size test: every download passes
too_small_never(size) == FALSE

\* the test of line 1017 (the file exists once it was opened for writing)
too_small(size) == size < MinDownloadSize

\* faulty variant of the test of the file count: every count passes
files_installed_ok_always(files_installed) == TRUE

\* the test of line 1028
files_installed_ok(files_installed) == files_installed > 0

\* InstallResult, with the destination and the scratch directories the call
\* leaves: downloaded is whether the download was written to the end, size
\* the size of the downloaded file, at the statement the call ended at
InstallResult(success, message, dir, at, downloaded, size, temp_dir, extract_dir, files) ==
    [success |-> success, message |-> message, dir |-> dir, at |-> at,
     downloaded |-> downloaded, size |-> size, temp_dir |-> temp_dir,
     extract_dir |-> extract_dir, files_installed |-> files]

\* what download_and_install returns after _extract_and_install ended as o
\* (lines 1026-1040 and the handlers of lines 1048-1059)
AfterExtract(o, size) ==
    IF o.raised = "BadZipFile"
    THEN InstallResult(FALSE, "Invalid archive format", o.dir, o.at, TRUE, size,
                       "present", o.extract_dir, 0)
    ELSE IF o.raised = "Exception"
    THEN InstallResult(FALSE, "Installation error", o.dir, o.at, TRUE, size,
                       "present", o.extract_dir, 0)
    ELSE IF files_installed_ok(o.files_count)
    THEN InstallResult(TRUE, "Installed successfully", o.dir, o.at, TRUE, size,
                       "present", o.extract_dir, o.files_count)
    ELSE InstallResult(FALSE, "No files extracted from archive", o.dir, o.at, TRUE, size,
                       "present", o.extract_dir, 0)

\* the try block of download_and_install (lines 992-1040) with its handlers
\* (lines 1042-1059)
download_body(dir, content) ==
    \* tempfile.mkdtemp (line 993) raises
    {InstallResult(FALSE, "Installation error", dir, "mkdtemp", FALSE, 0, "none", "none", 0)}
    \cup
    \* the request raises requests.RequestException
    {InstallResult(FALSE, "Download error", dir, "request", FALSE, 0, "present", "none", 0)}
    \cup
    \* writing the download raises OSError
    {InstallResult(FALSE, "Installation error", dir, "write", FALSE, 0, "present", "none", 0)}
    \cup
    UNION {IF too_small(size)
           THEN {InstallResult(FALSE, "Download failed or file too small", dir, "size",
                               TRUE, size, "present", "none", 0)}
           ELSE {AfterExtract(o, size) : o \in extract_and_install(dir, content)}
           : size \in DownloadSizes}

\* the finally block of download_and_install (lines 1060-1063)
download_finally(r) ==
    IF r.temp_dir = "present" THEN [r EXCEPT !.temp_dir = "removed"] ELSE r

\* ModDownloader.download_and_install: the results it can return when the
\* destination directory is dir and the archive unpacks to the files of
\* content, each with the destination directory it leaves behind
download_and_install(dir, content) ==
    {download_finally(r) : r \in download_body(dir, content)}

\* what the archives of the model unpack to: nothing, files that are no mod
\* content, a complete mod
ArchiveContents == {{}, {"other"}, {"uplugin", "pak"}}

\* ------------------------------------------------------------------------
\* PreVerifyInstaller
\* ------------------------------------------------------------------------
PhaseResult(name, ok) == [phase_name |-> name, success |-> ok]

RefsOf(mods) == [i \in 1..Len(mods) |-> mods[i].mod_reference]

ModOf(mods, ref) == mods[CHOOSE i \in 1..Len(mods) : mods[i].mod_reference = ref]

\* GapAnalysisResult.all_ok
all_ok(g) == Len(g.missing_mods) = 0 /\ Len(g.invalid_mods) = 0

\* faulty variant of mods_to_install: the repairs come first
mods_to_install_invalid_first(g) == g.invalid_mods \o g.missing_mods

\* GapAnalysisResult.mods_to_install
mods_to_install(g) == g.missing_mods \o g.invalid_mods

\* run_full_installation is called: phase1_resolve_dependencies starts
\* resolve_all
StartRun ==
    /\ pc = "idle"
    /\ ResolveBegin(mod_references)
    /\ phases' = <<>>
    /\ overall' = None
    /\ downloads' = <<>>
    /\ scans' = 0
    /\ disk_before' = disk
    /\ pc' = "resolving"
    /\ UNCHANGED <<catalog, mod_references, disk, resolved_mods, gap_analysis,
                   install_idx, failed_mods, finished>>
    /\ UNCHANGED directVars

Phase1Step ==
    /\ pc = "resolving"
    /\ ResolveIteration
    /\ UNCHANGED <<catalog, mod_references, pc, installerVars>>
    /\ UNCHANGED directVars

\* "success = len(resolved_list) > 0" (line 1363), after the faulty variant
\* that never reports a failed resolution
phase1_success_always(resolved) == TRUE

phase1_success(resolved) == Len(resolved) > 0

\* the rest of phase1_resolve_dependencies (lines 1337-1371) and lines
\* 1649-1651 of run_full_installation
Phase1End ==
    /\ pc = "resolving"
    /\ ResolveReturn
    /\ resolved_mods' = [i \in 1..Len(resolved_list') |-> cache[resolved_list'[i]]]
    /\ LET success == phase1_success(resolved_list') IN
         /\ phases' = Append(phases, PhaseResult("Dependency Resolution", success))
         /\ IF success
            THEN pc' = "scan" /\ UNCHANGED <<overall, finished>>
            ELSE /\ pc' = "done"
                 /\ overall' = FALSE
                 /\ finished' = Append(finished, FALSE)
    /\ UNCHANGED <<catalog, mod_references, disk, gap_analysis, install_idx,
                   failed_mods, downloads, scans, disk_before>>
    /\ UNCHANGED directVars

\* phase2_scan_installed
Phase2 ==
    /\ pc = "scan"
    /\ scans' = scans + 1
    /\ phases' = Append(phases, PhaseResult("Mod Scan", TRUE))
    /\ pc' = "gap"
    /\ UNCHANGED <<catalog, mod_references, resolverVars, disk, resolved_mods,
                   gap_analysis, overall, install_idx, failed_mods, downloads, finished,
                   disk_before>>
    /\ UNCHANGED directVars

\* needed_refs of phase3_gap_analysis (lines 1427-1430), after the faulty
\* variant that keeps the broken mods
needed_refs_all(mods) == RefsOf(mods)

needed_refs(mods) ==
    SelectSeq(RefsOf(mods), LAMBDA ref : ~is_broken(ModOf(mods, ref)))

\* the list the loop of lines 1442-1448 appends ref to, after the faulty
\* variant that takes every scanned directory for valid
classify_by_presence(ref, installed) ==
    IF ref \notin DOMAIN installed THEN "missing" ELSE "valid"

classify(ref, installed) ==
    IF ref \notin DOMAIN installed THEN "missing"
    ELSE IF ~installed[ref].valid THEN "invalid"
    ELSE "valid"

\* the gap analysis of phase3_gap_analysis (lines 1426-1458)
GapAnalysis(mods, installed) ==
    LET needed == needed_refs(mods)
        those(class) == SelectSeq(needed, LAMBDA ref : classify(ref, installed) = class)
    IN  [performed |-> TRUE,
         needed_mods |-> needed,
         installed_mods |-> installed,
         missing_mods |-> those("missing"),
         invalid_mods |-> those("invalid"),
         valid_mods |-> those("valid")]

\* faulty variant of the test of line 1662: the install phase always runs
needs_install_always(g) == TRUE

\* "if self.gap_analysis and not self.gap_analysis.all_ok" (line 1662)
needs_install(g) == g.performed /\ ~all_ok(g)

\* phase3_gap_analysis and line 1662 of run_full_installation
Phase3 ==
    /\ pc = "gap"
    /\ scans' = scans + 1
    /\ gap_analysis' = GapAnalysis(resolved_mods, scan_installed(disk))
    /\ phases' = Append(phases, PhaseResult("Gap Analysis", TRUE))
    /\ pc' = IF needs_install(gap_analysis') THEN "install" ELSE "verify"
    /\ UNCHANGED <<catalog, mod_references, resolverVars, disk, resolved_mods,
                   overall, install_idx, failed_mods, downloads, finished, disk_before>>
    /\ UNCHANGED directVars

\* faulty variant of the test of line 1507: the gap analysis is taken as done
gap_missing_never(g) == FALSE

\* "if not self.gap_analysis" (line 1507)
gap_missing(g) == ~g.performed

\* phase4_install_missing up to its loop (lines 1505-1532)
Phase4Begin ==
    /\ pc = "install"
    /\ IF gap_missing(gap_analysis)
       THEN /\ phases' = Append(phases, PhaseResult("Install Missing", FALSE))
            /\ pc' = "verify"
       ELSE IF mods_to_install(gap_analysis) = <<>>
       THEN /\ phases' = Append(phases, PhaseResult("Install Missing", TRUE))
            /\ pc' = "verify"
       ELSE /\ pc' = "installing"
            /\ UNCHANGED phases
    /\ install_idx' = 1
    /\ failed_mods' = <<>>
    /\ UNCHANGED <<catalog, mod_references, resolverVars, disk, resolved_mods,
                   gap_analysis, overall, downloads, scans, finished, disk_before>>
    /\ UNCHANGED directVars

\* faulty variant of the test of line 1539: no reference is skipped
NoDownloadNever(mods, ref) == FALSE

\* whether phase4_install_missing skips ref (line 1539)
NoDownload(mods, ref) ==
    \/ ref \notin RangeOf(RefsOf(mods))
    \/ ModOf(mods, ref).download_url = None

\* one iteration of the loop of phase4_install_missing (lines 1534-1557);
\* the last one returns the phase result (lines 1559-1569)
Phase4Step ==
    /\ pc = "installing"
    /\ LET todo == mods_to_install(gap_analysis)
           ref == todo[install_idx]
           last == install_idx = Len(todo)
       IN  /\ \/ /\ NoDownload(resolved_mods, ref)
                 /\ failed_mods' = Append(failed_mods, ref)
                 /\ UNCHANGED <<disk, downloads>>
              \/ /\ ~NoDownload(resolved_mods, ref)
                 /\ downloads' = Append(downloads, ref)
                 /\ \E content \in ArchiveContents :
                    \E result \in download_and_install(disk[ref], content) :
                       /\ disk' = [disk EXCEPT ![ref] = result.dir]
                       /\ failed_mods' = IF result.success THEN failed_mods
                                         ELSE Append(failed_mods, ref)
           /\ install_idx' = install_idx + 1
           /\ IF last
              THEN /\ phases' = Append(phases,
                                   PhaseResult("Install Missing", Len(failed_mods') = 0))
                   /\ pc' = "verify"
              ELSE UNCHANGED <<phases, pc>>
    /\ UNCHANGED <<catalog, mod_references, resolverVars, resolved_mods,
                   gap_analysis, overall, scans, finished, disk_before>>
    /\ UNCHANGED directVars

\* faulty variant of the verdict of phase5_final_verify: no validity check
FinalVerifyPresence(mods, installed) ==
    LET needed == RefsOf(mods) IN
    \A i \in 1..Len(needed) : needed[i] \in DOMAIN installed

\* the verdict of phase5_final_verify (lines 1586-1599)
FinalVerify(mods, installed) ==
    LET needed == RefsOf(mods) IN
    \A i \in 1..Len(needed) :
        needed[i] \in DOMAIN installed /\ installed[needed[i]].valid

\* phase5_final_verify and lines 1667-1671 of run_full_installation
Phase5 ==
    /\ pc = "verify"
    /\ scans' = scans + 1
    /\ LET all_valid == FinalVerify(resolved_mods, scan_installed(disk)) IN
         /\ phases' = Append(phases, PhaseResult("Final Verification", all_valid))
         /\ overall' = all_valid
         /\ finished' = Append(finished, all_valid)
    /\ pc' = "done"
    /\ UNCHANGED <<catalog, mod_references, resolverVars, disk, resolved_mods,
                   gap_analysis, install_idx, failed_mods, downloads, disk_before>>
    /\ UNCHANGED directVars

\* the caller runs the reconciliation again: same list, catalog and directory
RunAgain ==
    /\ pc = "done"
    /\ Len(finished) < MaxRuns
    /\ pc' = "idle"
    /\ UNCHANGED <<catalog, mod_references, resolverVars, installerVars>>
    /\ UNCHANGED directVars

\* ------------------------------------------------------------------------
\* Specification of run_full_installation, called up to MaxRuns times in a
\* row: any list of at most MaxInput distinct references of RunIds, any catalog of
\* RunIds with at most MaxRunEdges dependency entries and at most MaxFlaws
\* entries that are not plain installable, any Mods directory of absent,
\* empty and complete mod directories.
\* ------------------------------------------------------------------------
RunIds == {"SML", "A"}

NotInCatalog == [version |-> None, deps |-> <<>>, windows |-> TRUE, broken |-> FALSE]

FlawCount(c) == Cardinality({x \in RunIds : Flawed(c[x])})

RunCatalogs ==
    {c \in [Ids -> CatalogEntries] :
        /\ \A x \in Ids \ RunIds : c[x] = NotInCatalog
        /\ \A x \in RunIds : RangeOf(c[x].deps) \subseteq RunIds
        /\ SumLen(c, Ids) <= MaxRunEdges
        /\ FlawCount(c) <= MaxFlaws}

\* the callers pass the selected mods of the configuration: no reference twice
RunInputs == {refs \in SeqsUpTo(RunIds, MaxInput) : NoDup(refs)}

InitialDirs == {Absent, [exists |-> TRUE, files |-> {}],
                [exists |-> TRUE, files |-> {"uplugin", "pak"}]}

RunDisks ==
    {d \in [Ids -> InitialDirs] : \A x \in Ids \ RunIds : d[x] = Absent}

Init ==
    /\ catalog \in RunCatalogs
    /\ mod_references \in RunInputs
    /\ pc = "idle"
    /\ cache = EmptyMap
    /\ errors = EmptyMap
    /\ all_needed = {}
    /\ to_process = <<>>
    /\ queried = <<>>
    /\ enqueuedBy = [x \in Ids |-> {}]
    /\ resolved_list = <<>>
    /\ disk \in RunDisks
    /\ resolved_mods = <<>>
    /\ gap_analysis = NoGapAnalysis
    /\ phases = <<>>
    /\ overall = None
    /\ install_idx = 0
    /\ failed_mods = <<>>
    /\ downloads = <<>>
    /\ scans = 0
    /\ finished = <<>>
    /\ disk_before = disk
    /\ last_call = NoCall
    /\ cli = CliIdle
    /\ gui = GuiIdle
    /\ server = ServerIdle

Next ==
    \/ StartRun
    \/ Phase1Step
    \/ Phase1End
    \/ Phase2
    \/ Phase3
    \/ Phase4Begin
    \/ Phase4Step
    \/ Phase5
    \/ RunAgain

Spec == Init /\ [][Next]_vars

\* ------------------------------------------------------------------------
\* ModScanner.get_missing_mods and PreVerifyInstaller.cleanup_obsolete_mods
\* ------------------------------------------------------------------------
\* faulty variant of get_missing_mods: the test of line 956 is left out
get_missing_mods_absent(d, required_refs) ==
    SelectSeq(required_refs, LAMBDA ref : ref \notin DOMAIN scan_installed(d))

\* ModScanner.get_missing_mods
get_missing_mods(d, required_refs) ==
    LET installed == scan_installed(d) IN
    SelectSeq(required_refs,
              LAMBDA ref : IF ref \notin DOMAIN installed THEN TRUE
                           ELSE ~installed[ref].valid)

\* faulty variant of to_remove: every installed directory is removed
to_remove_all(installed_folders, valid_mod_refs) == installed_folders

\* to_remove of cleanup_obsolete_mods (lines 1714-1715), as a set
to_remove(installed_folders, valid_mod_refs) ==
    {ref \in installed_folders : ref \notin RangeOf(valid_mod_refs)}

\* ------------------------------------------------------------------------
\* Specification of the direct calls on a Mods directory: scan_installed,
\* get_missing_mods, download_and_install and cleanup_obsolete_mods, each
\* called on any Mods directory with any arguments.
\* ------------------------------------------------------------------------
InitDir ==
    /\ catalog = [x \in Ids |-> NotInCatalog]
    /\ mod_references = <<>>
    /\ pc = "idle"
    /\ cache = EmptyMap
    /\ errors = EmptyMap
    /\ all_needed = {}
    /\ to_process = <<>>
    /\ queried = <<>>
    /\ enqueuedBy = [x \in Ids |-> {}]
    /\ resolved_list = <<>>
    /\ disk \in [Ids -> DirStates]
    /\ disk_before = [x \in Ids |-> Absent]
    /\ resolved_mods = <<>>
    /\ gap_analysis = NoGapAnalysis
    /\ phases = <<>>
    /\ overall = None
    /\ install_idx = 0
    /\ failed_mods = <<>>
    /\ downloads = <<>>
    /\ scans = 0
    /\ finished = <<>>
    /\ last_call = NoCall
    /\ cli = CliIdle
    /\ gui = GuiIdle
    /\ server = ServerIdle

dirFrame == <<catalog, mod_references, pc, resolverVars, disk_before, resolved_mods,
              gap_analysis, phases, overall, install_idx, failed_mods, downloads, scans,
              finished, cli, gui, server>>

\* ModScanner.scan_installed is called
CallScan ==
    /\ last_call.op = "none"
    /\ last_call' = [NoCall EXCEPT !.op = "scan_installed", !.before = disk,
                                   !.scan = scan_installed(disk)]
    /\ UNCHANGED <<disk, dirFrame>>

\* ModScanner.get_missing_mods is called
CallGetMissing ==
    /\ last_call.op = "none"
    /\ \E required_refs \in SeqsUpTo(Ids, MaxInput) :
          last_call' = [NoCall EXCEPT !.op = "get_missing_mods", !.before = disk,
                                      !.refs = required_refs,
                                      !.out1 = get_missing_mods(disk, required_refs)]
    /\ UNCHANGED <<disk, dirFrame>>

\* ModDownloader.download_and_install is called
CallDownload ==
    /\ last_call.op = "none"
    /\ \E ref \in Ids : \E content \in ArchiveContents :
       \E result \in download_and_install(disk[ref], content) :
          /\ disk' = [disk EXCEPT ![ref] = result.dir]
          /\ last_call' = [NoCall EXCEPT !.op = "download_and_install", !.before = disk,
                                         !.refs = <<ref>>, !.content = content,
                                         !.result = result]
    /\ UNCHANGED dirFrame

\* PreVerifyInstaller.cleanup_obsolete_mods is called: installed_folders is
\* listed in any order, shutil.rmtree raises for the directories of failing
\* and leaves them with the files of left
CallCleanup ==
    /\ last_call.op = "none"
    /\ \E valid_mod_refs \in SeqsUpTo(Ids, MaxInput) :
       LET installed_folders == {x \in Ids : disk[x].exists}
           obsolete == to_remove(installed_folders, valid_mod_refs)
       IN  \E order \in Perms(obsolete) : \E failing \in SUBSET obsolete :
           \E left \in [failing -> SUBSET Kinds] :
              /\ \A x \in failing : left[x] \subseteq disk[x].files
              /\ disk' = [x \in Ids |->
                            IF x \in failing THEN [exists |-> TRUE, files |-> left[x]]
                            ELSE IF x \in obsolete THEN Absent
                            ELSE disk[x]]
              /\ last_call' = [NoCall EXCEPT
                                 !.op = "cleanup_obsolete_mods", !.before = disk,
                                 !.refs = valid_mod_refs,
                                 !.out1 = SelectSeq(order, LAMBDA x : x \notin failing),
                                 !.out2 = SelectSeq(order, LAMBDA x : x \in failing)]
    /\ UNCHANGED dirFrame

\* the call has returned; the next call finds the directory as it is now
CallReturn ==
    /\ last_call.op # "none"
    /\ last_call' = NoCall
    /\ UNCHANGED <<disk, dirFrame>>

NextDir == CallScan \/ CallGetMissing \/ CallDownload \/ CallCleanup \/ CallReturn

SpecDir == InitDir /\ [][NextDir]_vars

\* ------------------------------------------------------------------------
\* The worker of the Install button, _run_preverify_installation: phase 0
\* cleans up against the mods of the configuration, then the five phases run
\* on the selected mods; the run ends after the gap analysis when nothing is
\* to install.
\* ------------------------------------------------------------------------
\* the configurations: lists of mods that contain the selected ones
Configs(selected) ==
    {c \in SeqsUpTo(RunIds, Cardinality(RunIds)) :
        NoDup(c) /\ RangeOf(selected) \subseteq RangeOf(c)}

\* phase 0 (lines 929-947): cleanup_obsolete_mods with the references of the
\* configuration
GuiCleanup ==
    /\ pc = "gui_start"
    /\ \E valid_refs \in Configs(mod_references) :
       LET installed_folders == {x \in Ids : disk[x].exists}
           obsolete == to_remove(installed_folders, valid_refs)
       IN  \E order \in Perms(obsolete) : \E failing \in SUBSET obsolete :
           \E left \in [failing -> SUBSET Kinds] :
              /\ \A x \in failing : left[x] \subseteq disk[x].files
              /\ disk' = [x \in Ids |->
                            IF x \in failing THEN [exists |-> TRUE, files |-> left[x]]
                            ELSE IF x \in obsolete THEN Absent
                            ELSE disk[x]]
              /\ last_call' = [NoCall EXCEPT
                                 !.op = "cleanup_obsolete_mods", !.before = disk,
                                 !.refs = valid_refs,
                                 !.out1 = SelectSeq(order, LAMBDA x : x \notin failing),
                                 !.out2 = SelectSeq(order, LAMBDA x : x \in failing)]
    /\ pc' = "idle"
    /\ UNCHANGED <<catalog, mod_references, resolverVars, disk_before, resolved_mods,
                   gap_analysis, phases, overall, install_idx, failed_mods, downloads,
                   scans, finished, cli, gui, server>>

\* phase3_gap_analysis and the test of lines 989-993: the worker reports
\* success and returns when the gap analysis is all_ok
GuiPhase3 ==
    /\ pc = "gap"
    /\ scans' = scans + 1
    /\ gap_analysis' = GapAnalysis(resolved_mods, scan_installed(disk))
    /\ phases' = Append(phases, PhaseResult("Gap Analysis", TRUE))
    /\ IF all_ok(gap_analysis')
       THEN /\ pc' = "done"
            /\ overall' = TRUE
            /\ finished' = Append(finished, TRUE)
       ELSE /\ pc' = "install"
            /\ UNCHANGED <<overall, finished>>
    /\ UNCHANGED <<catalog, mod_references, resolverVars, disk, resolved_mods,
                   install_idx, failed_mods, downloads, disk_before>>
    /\ UNCHANGED directVars

InitWorkflow ==
    /\ catalog \in RunCatalogs
    /\ mod_references \in RunInputs
    /\ pc = "gui_start"
    /\ cache = EmptyMap
    /\ errors = EmptyMap
    /\ all_needed = {}
    /\ to_process = <<>>
    /\ queried = <<>>
    /\ enqueuedBy = [x \in Ids |-> {}]
    /\ resolved_list = <<>>
    /\ disk \in RunDisks
    /\ resolved_mods = <<>>
    /\ gap_analysis = NoGapAnalysis
    /\ phases = <<>>
    /\ overall = None
    /\ install_idx = 0
    /\ failed_mods = <<>>
    /\ downloads = <<>>
    /\ scans = 0
    /\ finished = <<>>
    /\ disk_before = disk
    /\ last_call = NoCall
    /\ cli = CliIdle
    /\ gui = GuiIdle
    /\ server = ServerIdle

NextWorkflow ==
    \/ GuiCleanup
    \/ StartRun
    \/ Phase1Step
    \/ Phase1End
    \/ Phase2
    \/ GuiPhase3
    \/ Phase4Begin
    \/ Phase4Step
    \/ Phase5

SpecWorkflow == InitWorkflow /\ [][NextWorkflow]_vars

\* ------------------------------------------------------------------------
\* Direct calls of single methods of PreVerifyInstaller, ModDownloader and
\* ModScanner on a new PreVerifyInstaller (resolved_mods empty, gap_analysis
\* None) and any Mods directory.
\* ------------------------------------------------------------------------
callFrame == <<catalog, mod_references, pc, resolverVars, disk_before, resolved_mods,
               phases, overall, install_idx, failed_mods, scans, finished, cli, gui, server>>

\* phase3_gap_analysis is called (lines 1411-1492)
CallPhase3 ==
    /\ last_call.op = "none"
    /\ gap_analysis' = GapAnalysis(resolved_mods, scan_installed(disk))
    /\ last_call' = [NoCall EXCEPT
                       !.op = "phase3_gap_analysis", !.before = disk,
                       !.phase = [phase_name |-> "Gap Analysis", success |-> TRUE,
                                  message |-> IF all_ok(gap_analysis')
                                              THEN "All required mods are already installed and valid!"
                                              ELSE "mods need to be installed/repaired"]]
    /\ UNCHANGED <<disk, downloads, callFrame>>

\* phase4_install_missing is called (lines 1494-1569) with nothing to
\* install: it returns before its loop
CallPhase4 ==
    /\ last_call.op = "none"
    /\ gap_missing(gap_analysis) \/ mods_to_install(gap_analysis) = <<>>
    /\ last_call' = [NoCall EXCEPT
                       !.op = "phase4_install_missing", !.before = disk,
                       !.phase = IF gap_missing(gap_analysis)
                                 THEN [phase_name |-> "Install Missing", success |-> FALSE,
                                       message |-> "Gap analysis not performed"]
                                 ELSE [phase_name |-> "Install Missing", success |-> TRUE,
                                       message |-> "No mods need to be installed"]]
    /\ UNCHANGED <<disk, downloads, gap_analysis, callFrame>>

\* ModScanner.check_mod (lines 929-941)
check_mod(dir) ==
    IF ~dir.exists
    THEN [installed |-> FALSE, valid |-> FALSE, message |-> "Not installed"]
    ELSE check_mod_directory(dir)

\* ModDownloader.verify_installation (lines 1114-1141)
verify_installation(dir) ==
    IF ~dir.exists
    THEN [installed |-> FALSE, valid |-> FALSE, message |-> "Mod folder not found"]
    ELSE LET has_uplugin == "uplugin" \in dir.files IN
         [installed |-> TRUE,
          valid |-> has_uplugin,
          has_uplugin |-> has_uplugin,
          pak_count |-> IF "pak" \in dir.files THEN 1 ELSE 0,
          message |-> IF has_uplugin THEN "Valid" ELSE "Missing .uplugin file"]

\* ModScanner.check_mod is called
CallCheckMod ==
    /\ last_call.op = "none"
    /\ \E ref \in Ids :
          last_call' = [NoCall EXCEPT !.op = "check_mod", !.before = disk,
                                      !.refs = <<ref>>, !.status = check_mod(disk[ref])]
    /\ UNCHANGED <<disk, downloads, gap_analysis, callFrame>>

\* ModDownloader.verify_installation is called
CallVerifyInstallation ==
    /\ last_call.op = "none"
    /\ \E ref \in Ids :
          last_call' = [NoCall EXCEPT !.op = "verify_installation", !.before = disk,
                                      !.refs = <<ref>>,
                                      !.status = verify_installation(disk[ref])]
    /\ UNCHANGED <<disk, downloads, gap_analysis, callFrame>>

\* What extractall left in the extraction directory: the subdirectory named
\* after the mod (or none), the files directly in the root, the other
\* subdirectories. A directory is the set of the kinds of its files, a
\* manifest counted where it lies directly in the directory.
MaxSubdirs == 2     \* most subdirectories of an archive not named after the mod

SubdirFiles == {{"other"}, {"uplugin", "pak"}}

ExtractedTrees ==
    [mod_subfolder : {Absent} \cup {[exists |-> TRUE, files |-> f] : f \in {{}, {"uplugin", "pak"}}},
     root_files : {{}, {"other"}, {"uplugin", "pak"}},
     subdirs : SeqsUpTo(SubdirFiles, MaxSubdirs)]

\* faulty variant of the choice: the manifest in the root is looked for first
source_dir_root_first(tree) ==
    IF "uplugin" \in tree.root_files THEN "extract_dir"
    ELSE IF tree.mod_subfolder.exists THEN "mod_subfolder"
    ELSE IF Len(tree.subdirs) = 1 THEN "sole_subdir"
    ELSE "extract_dir"

\* source_dir of _extract_and_install (lines 1080-1095)
source_dir(tree) ==
    IF tree.mod_subfolder.exists THEN "mod_subfolder"
    ELSE LET uplugins == "uplugin" \in tree.root_files IN
         IF ~uplugins
         THEN IF Len(tree.subdirs) = 1 THEN "sole_subdir" ELSE "extract_dir"
         ELSE "extract_dir"

\* the files of a subdirectory as part of the directory above it: its
\* manifest no longer lies directly in the directory
Nested(f) == (f \ {"uplugin"}) \cup (IF "uplugin" \in f THEN {"other"} ELSE {})

\* the files shutil.copytree (line 1103) copies from the chosen directory
source_files(tree, source) ==
    IF source = "mod_subfolder" THEN tree.mod_subfolder.files
    ELSE IF source = "sole_subdir" THEN tree.subdirs[1]
    ELSE tree.root_files
            \cup (IF tree.mod_subfolder.exists THEN Nested(tree.mod_subfolder.files) ELSE {})
            \cup UNION {Nested(tree.subdirs[i]) : i \in 1..Len(tree.subdirs)}

\* ModDownloader._extract_and_install is called for the mod A
CallExtract ==
    /\ last_call.op = "none"
    /\ \E tree \in ExtractedTrees :
       LET source == source_dir(tree)
           content == source_files(tree, source)
       IN  \E o \in extract_and_install(disk["A"], content) :
              /\ disk' = [disk EXCEPT !["A"] = o.dir]
              /\ last_call' = [NoCall EXCEPT
                                 !.op = "_extract_and_install", !.before = disk,
                                 !.refs = <<"A">>, !.content = content,
                                 !.tree = tree, !.source_dir = source,
                                 !.result = [NoInstall EXCEPT !.dir = o.dir, !.at = o.at,
                                                !.extract_dir = o.extract_dir,
                                                !.files_installed = o.files_count]]
    /\ UNCHANGED <<downloads, gap_analysis, callFrame>>

\* a new PreVerifyInstaller (lines 1306-1318) on a Mods directory in which
\* the directory of A is in any state
InitCalls ==
    /\ catalog = [x \in Ids |-> NotInCatalog]
    /\ mod_references = <<>>
    /\ pc = "idle"
    /\ cache = EmptyMap
    /\ errors = EmptyMap
    /\ all_needed = {}
    /\ to_process = <<>>
    /\ queried = <<>>
    /\ enqueuedBy = [x \in Ids |-> {}]
    /\ resolved_list = <<>>
    /\ disk \in {d \in [Ids -> DirStates] : \A x \in Ids \ {"A"} : d[x] = Absent}
    /\ disk_before = [x \in Ids |-> Absent]
    /\ resolved_mods = <<>>
    /\ gap_analysis = NoGapAnalysis
    /\ phases = <<>>
    /\ overall = None
    /\ install_idx = 0
    /\ failed_mods = <<>>
    /\ downloads = <<>>
    /\ scans = 0
    /\ finished = <<>>
    /\ last_call = NoCall
    /\ cli = CliIdle
    /\ gui = GuiIdle
    /\ server = ServerIdle

NextCalls == CallPhase3 \/ CallPhase4 \/ CallCheckMod \/ CallVerifyInstallation
                \/ CallExtract \/ CallReturn

SpecCalls == InitCalls /\ [][NextCalls]_vars

\* ------------------------------------------------------------------------
\* FicsitCLI
\* ------------------------------------------------------------------------
\* what the ficsit-cli process answers: its return code (Timeout when
\* subprocess.run raises TimeoutExpired) and the text it wrote
Timeout == -1

ToolOutputs == {"", "profile already exists", "Mod Already Present", "unknown mod"}

ToolResponses ==
    {[returncode |-> 0, output |-> ""], [returncode |-> Timeout, output |-> ""]}
    \cup {[returncode |-> 1, output |-> o] : o \in ToolOutputs}

\* str.lower on the texts of the model
Lower(text) ==
    CASE text = "Mod Already Present" -> "mod already present"
      [] text = "Command timed out" -> "command timed out"
      [] text = "Exit code: 1" -> "exit code: 1"
      [] OTHER -> text

\* "sub in text" on the texts of the model
Contains(text, sub) ==
    \/ sub = "already exists" /\ text = "profile already exists"
    \/ sub = "already present" /\ text = "mod already present"
    \/ sub = "Already Present" /\ text = "Mod Already Present"

\* FicsitCLI._run_command: (success, output / error message)
run_command(available, resp) ==
    IF ~available THEN [success |-> FALSE, output |-> "ficsit-cli not available"]
    ELSE IF resp.returncode = Timeout
    THEN [success |-> FALSE, output |-> "Command timed out"]
    ELSE IF resp.returncode = 0 THEN [success |-> TRUE, output |-> resp.output]
    ELSE [success |-> FALSE,
          output |-> IF resp.output = "" THEN "Exit code: 1" ELSE resp.output]

\* the test of lines 254 and 266
already_done(output) ==
    Contains(Lower(output), "already exists") \/ Contains(Lower(output), "already present")

\* FicsitCLI.add_installation, from what _run_command returned
add_installation(r) ==
    IF r.success THEN [success |-> TRUE, msg |-> "Added installation"]
    ELSE IF already_done(r.output)
    THEN [success |-> TRUE, msg |-> "Installation already registered"]
    ELSE [success |-> FALSE, msg |-> r.output]

\* faulty variant of create_profile: the outcome of the command is not looked at
create_profile_always(r) == [success |-> TRUE, msg |-> "Created profile"]

\* faulty variant of create_profile: without the test of line 266
create_profile_strict(r) ==
    IF r.success THEN [success |-> TRUE, msg |-> "Created profile"]
    ELSE [success |-> FALSE, msg |-> r.output]

\* FicsitCLI.create_profile
create_profile(r) ==
    IF r.success THEN [success |-> TRUE, msg |-> "Created profile"]
    ELSE IF already_done(r.output)
    THEN [success |-> TRUE, msg |-> "Profile already exists"]
    ELSE [success |-> FALSE, msg |-> r.output]

\* FicsitCLI.add_mod_to_profile
add_mod_to_profile(r) ==
    IF r.success THEN [success |-> TRUE, msg |-> "Added to profile"]
    ELSE [success |-> FALSE, msg |-> r.output]

\* FicsitCLI.set_installation_profile
set_installation_profile(r) ==
    IF r.success THEN [success |-> TRUE, msg |-> "Linked profile to installation"]
    ELSE [success |-> FALSE, msg |-> r.output]

\* FicsitCLI.apply_installation
apply_installation(r) ==
    IF r.success THEN [success |-> TRUE, msg |-> "Mods downloaded and installed"]
    ELSE [success |-> FALSE, msg |-> r.output]

\* an entry of the log of the commands of a run: the step, the reference it
\* was for (None for the other steps), whether the process ran, what it
\* answered and what the method of the step returned
LogEntry(step, ref, available, resp, ret) ==
    [step |-> step, ref |-> ref, ran |-> available,
     returncode |-> IF available THEN resp.returncode ELSE 0,
     output |-> IF available THEN resp.output ELSE "",
     success |-> ret.success, msg |-> ret.msg]

Diag(tag, msg) == [tag |-> tag, msg |-> msg]

\* faulty variant of the loops of lines 327-328 and 343-344: nothing is recorded
AllFailedNone(refs, prefix, msg) == EmptyMap

\* failed_with_errors after "for ref in mod_references:
\* failed_with_errors[ref] = prefix + msg"
AllFailed(refs, prefix, msg) ==
    [ref \in RangeOf(refs) |-> [prefix |-> prefix, msg |-> msg]]

\* install_mods is called (lines 312-314)
CliStart ==
    /\ cli.pc = "idle"
    /\ cli' = [cli EXCEPT !.pc = "registration"]
    /\ UNCHANGED <<catalog, mod_references, pc, resolverVars, installerVars, last_call, gui, server>>

\* step 1 of install_mods (lines 316-329)
CliAddInstallation ==
    /\ cli.pc = "registration"
    /\ \E resp \in ToolResponses :
       LET ret == add_installation(run_command(cli.available, resp))
           log == Append(cli.log, LogEntry("installation add", None, cli.available, resp, ret))
       IN  IF ret.success
           THEN cli' = [cli EXCEPT !.pc = "profile", !.log = log,
                          !.diagnostics = Append(@, Diag("[OK] Registration", ret.msg))]
           ELSE cli' = [cli EXCEPT !.pc = "done", !.log = log, !.ret = FALSE,
                          !.diagnostics = Append(@, Diag("[FAILED] Registration", ret.msg)),
                          !.failed_with_errors =
                              AllFailed(mod_references, "Installation registration failed",
                                        ret.msg)]
    /\ UNCHANGED <<catalog, mod_references, pc, resolverVars, installerVars, last_call, gui, server>>

\* step 2 of install_mods (lines 331-345)
CliCreateProfile ==
    /\ cli.pc = "profile"
    /\ \E resp \in ToolResponses :
       LET ret == create_profile(run_command(cli.available, resp))
           log == Append(cli.log, LogEntry("profile new", None, cli.available, resp, ret))
       IN  IF ret.success
           THEN cli' = [cli EXCEPT !.pc = "mods", !.idx = 1, !.log = log,
                          !.diagnostics = Append(@, Diag("[OK] Profile", ret.msg))]
           ELSE cli' = [cli EXCEPT !.pc = "done", !.log = log, !.ret = FALSE,
                          !.diagnostics = Append(@, Diag("[FAILED] Profile", ret.msg)),
                          !.failed_with_errors =
                              AllFailed(mod_references, "Profile creation failed", ret.msg)]
    /\ UNCHANGED <<catalog, mod_references, pc, resolverVars, installerVars, last_call, gui, server>>

\* one iteration of the loop of step 3 (lines 348-358)
CliAddMod ==
    /\ cli.pc = "mods"
    /\ cli.idx <= Len(mod_references)
    /\ \E resp \in ToolResponses :
       LET mod_ref == mod_references[cli.idx]
           ret == add_mod_to_profile(run_command(cli.available, resp))
           log == Append(cli.log, LogEntry("profile mod add", mod_ref, cli.available, resp, ret))
       IN  IF ret.success
           THEN cli' = [cli EXCEPT !.idx = @ + 1, !.log = log,
                          !.successful = Append(@, mod_ref)]
           ELSE cli' = [cli EXCEPT !.idx = @ + 1, !.log = log,
                          !.failed_with_errors = Put(@, mod_ref, [prefix |-> "", msg |-> ret.msg])]
    /\ UNCHANGED <<catalog, mod_references, pc, resolverVars, installerVars, last_call, gui, server>>

\* the end of step 3 and step 4 of install_mods (lines 360-372)
CliSetProfile ==
    /\ cli.pc = "mods"
    /\ cli.idx > Len(mod_references)
    /\ \E resp \in ToolResponses :
       LET ret == set_installation_profile(run_command(cli.available, resp))
           log == Append(cli.log,
                         LogEntry("installation set-profile", None, cli.available, resp, ret))
           info == Append(cli.diagnostics, Diag("[INFO] Mods added", ""))
       IN  IF ret.success
           THEN cli' = [cli EXCEPT !.pc = "apply", !.log = log,
                          !.diagnostics = Append(info, Diag("[OK] Profile linked", ret.msg))]
           ELSE cli' = [cli EXCEPT !.pc = "done", !.log = log, !.ret = FALSE,
                          !.diagnostics = Append(info, Diag("[FAILED] Profile link", ret.msg))]
    /\ UNCHANGED <<catalog, mod_references, pc, resolverVars, installerVars, last_call, gui, server>>

\* step 5 of install_mods and its return (lines 374-386)
CliApply ==
    /\ cli.pc = "apply"
    /\ \E resp \in ToolResponses :
       LET ret == apply_installation(run_command(cli.available, resp))
           log == Append(cli.log, LogEntry("apply", None, cli.available, resp, ret))
       IN  IF ret.success
           THEN cli' = [cli EXCEPT !.pc = "done", !.log = log,
                          !.ret = (DOMAIN cli.failed_with_errors = {}),
                          !.diagnostics = Append(@, Diag("[OK] Installation", ret.msg))]
           ELSE cli' = [cli EXCEPT !.pc = "done", !.log = log, !.ret = FALSE,
                          !.diagnostics = Append(@, Diag("[FAILED] Installation", ret.msg))]
    /\ UNCHANGED <<catalog, mod_references, pc, resolverVars, installerVars, last_call, gui, server>>

\* ------------------------------------------------------------------------
\* Specification of FicsitCLI.install_mods: any list of at most MaxInput
\* references, ficsit-cli available or not, any answer of the tool to each
\* command.
\* ------------------------------------------------------------------------
InitCli ==
    /\ catalog = [x \in Ids |-> NotInCatalog]
    /\ mod_references \in SeqsUpTo(Ids, MaxInput)
    /\ pc = "idle"
    /\ cache = EmptyMap
    /\ errors = EmptyMap
    /\ all_needed = {}
    /\ to_process = <<>>
    /\ queried = <<>>
    /\ enqueuedBy = [x \in Ids |-> {}]
    /\ resolved_list = <<>>
    /\ InstallerIdle
    /\ last_call = NoCall
    /\ \E available \in BOOLEAN : cli = [CliIdle EXCEPT !.available = available]
    /\ gui = GuiIdle
    /\ server = ServerIdle

NextCli == CliStart \/ CliAddInstallation \/ CliCreateProfile \/ CliAddMod
              \/ CliSetProfile \/ CliApply

SpecCli == InitCli /\ [][NextCli]_vars

\* ------------------------------------------------------------------------
\* ModInstallerApp: the Install and Update handlers, their worker threads
\* and the completion callbacks the workers hand to the Tk event loop with
\* self.after(0, ...). Handlers and callbacks run one at a time on the main
\* thread; only they read or write is_installing.
\* ------------------------------------------------------------------------
MaxWorkers == 3     \* most worker threads started in a behaviour

\* faulty variant of the guard: a run in flight does not stop the handler
installing_guard_never(is_installing) == FALSE

\* "if self.is_installing: return" (lines 765 and 862)
installing_guard(is_installing) == is_installing

Worker(kind, at, left) == [kind |-> kind, pc |-> at, left |-> left]

\* a worker thread that has not yet handed over its completion callback
InFlight(w) == w.pc # "posted"

\* the worker w hands the completion callback cb to the event loop and ends
Post(i, cb) ==
    gui' = [gui EXCEPT !.queue = Append(@, cb), !.workers[i].pc = "posted"]

guiFrame == <<catalog, mod_references, pc, resolverVars, installerVars, last_call, cli,
             server>>

\* ModInstallerApp._start_installation (lines 860-906): ready is whether a
\* game path is set and a mod is selected, constructed whether
\* PreVerifyInstaller(self.game_path) returns
ClickInstall ==
    /\ Len(gui.workers) < MaxWorkers
    /\ IF installing_guard(gui.is_installing)
       THEN gui' = [gui EXCEPT !.refused = TRUE]
       ELSE \E ready \in BOOLEAN : \E constructed \in BOOLEAN :
            IF ~ready THEN gui' = gui
            ELSE IF ~constructed THEN gui' = [gui EXCEPT !.is_installing = TRUE]
            ELSE gui' = [gui EXCEPT !.is_installing = TRUE,
                                    !.workers = Append(@, Worker("install", "cleanup", 0))]
    /\ UNCHANGED guiFrame

\* ModInstallerApp._update_mods (lines 763-831) for a list of n references
ClickUpdate ==
    /\ Len(gui.workers) < MaxWorkers
    /\ IF installing_guard(gui.is_installing)
       THEN gui' = [gui EXCEPT !.refused = TRUE]
       ELSE \E n \in 1..MaxInput :
            gui' = [gui EXCEPT !.is_installing = TRUE,
                               !.workers = Append(@, Worker("update", "update", n))]
    /\ UNCHANGED guiFrame

\* one phase of _run_preverify_installation (lines 928-1027): it goes on to
\* the next phase, ends the run (failed resolution at line 965, all_ok at
\* line 992, the final verification at line 1018) or raises (line 1027)
InstallWorkerStep ==
    /\ \E i \in 1..Len(gui.workers) :
       LET w == gui.workers[i] IN
       /\ w.kind = "install"
       /\ InFlight(w)
       /\ \/ Post(i, [name |-> "_on_preverify_complete", success |-> FALSE])
          \/ /\ w.pc = "cleanup"
             /\ gui' = [gui EXCEPT !.workers[i].pc = "resolve"]
          \/ /\ w.pc = "resolve"
             /\ gui' = [gui EXCEPT !.workers[i].pc = "scan"]
          \/ /\ w.pc = "scan"
             /\ gui' = [gui EXCEPT !.workers[i].pc = "gap"]
          \/ /\ w.pc = "gap"
             /\ \/ Post(i, [name |-> "_on_preverify_complete", success |-> TRUE])
                \/ gui' = [gui EXCEPT !.workers[i].pc = "install"]
          \/ /\ w.pc = "install"
             /\ gui' = [gui EXCEPT !.workers[i].pc = "verify"]
          \/ /\ w.pc = "verify"
             /\ Post(i, [name |-> "_on_preverify_complete", success |-> TRUE])
    /\ UNCHANGED guiFrame

\* one iteration of the loop of update_thread (lines 787-821), its end (line
\* 823) or an exception (lines 827-829)
UpdateWorkerStep ==
    /\ \E i \in 1..Len(gui.workers) :
       LET w == gui.workers[i] IN
       /\ w.kind = "update"
       /\ InFlight(w)
       /\ \/ Post(i, [name |-> "_on_update_complete_error", success |-> FALSE])
          \/ /\ w.left > 0
             /\ gui' = [gui EXCEPT !.workers[i].left = @ - 1]
          \/ /\ w.left = 0
             /\ Post(i, [name |-> "_on_update_complete", success |-> TRUE])
    /\ UNCHANGED guiFrame

\* the event loop runs the next completion callback: _on_update_complete,
\* _on_update_complete_error (lines 833-858) or _on_preverify_complete (line
\* 1042)
HandleCallback ==
    /\ gui.queue # <<>>
    /\ gui' = [gui EXCEPT !.queue = Tail(@), !.is_installing = FALSE]
    /\ UNCHANGED guiFrame

InitGui ==
    /\ catalog = [x \in Ids |-> NotInCatalog]
    /\ mod_references = <<>>
    /\ pc = "idle"
    /\ cache = EmptyMap
    /\ errors = EmptyMap
    /\ all_needed = {}
    /\ to_process = <<>>
    /\ queried = <<>>
    /\ enqueuedBy = [x \in Ids |-> {}]
    /\ resolved_list = <<>>
    /\ InstallerIdle
    /\ last_call = NoCall
    /\ cli = CliIdle
    /\ gui = GuiIdle
    /\ server = ServerIdle

NextGui == ClickInstall \/ ClickUpdate \/ InstallWorkerStep \/ UpdateWorkerStep
              \/ HandleCallback

SpecGui == InitGui /\ [][NextGui]_vars

\* a started thread runs on and the event loop runs the callbacks handed to
\* it; nobody has to click
FairGui ==
    /\ SpecGui
    /\ WF_vars(InstallWorkerStep)
    /\ WF_vars(UpdateWorkerStep)
    /\ WF_vars(HandleCallback)

\* ------------------------------------------------------------------------
\* The worker of the Update buttons, update_thread of _update_mods, with the
\* version cache it shares with the other workflows of ModInstallerApp
\* ------------------------------------------------------------------------
\* the mods of the updates panel
UpdateIds == {"A", "B"}

\* ModVersion: a version string and whether it has a download URL
ModVersion(version, has_url) == [version |-> version, download_url |-> has_url]

\* the version lists the model distinguishes, newest first: none, a latest
\* version without a download URL, a latest version with one
VersionLists ==
    {<<>>,
     <<ModVersion("2.0.0", FALSE), ModVersion("1.0.0", TRUE)>>,
     <<ModVersion("2.0.0", TRUE), ModVersion("1.0.0", TRUE)>>}

\* VersionCache.get_or_fetch: the memoized list of the identifier, fetched
\* from the API and stored when the cache has none; with the cache it leaves
get_or_fetch(version_cache, mod_ref, api) ==
    IF mod_ref \in DOMAIN version_cache
    THEN [versions |-> version_cache[mod_ref], version_cache |-> version_cache]
    ELSE [versions |-> api[mod_ref],
          version_cache |-> [x \in DOMAIN version_cache \cup {mod_ref} |->
                                IF x = mod_ref THEN api[mod_ref] ELSE version_cache[x]]]

\* VersionCache.invalidate: the entry of the identifier is dropped
invalidate(version_cache, mod_ref) ==
    [x \in DOMAIN version_cache \ {mod_ref} |-> version_cache[x]]

\* faulty variant of the update loop: the entry is dropped after every attempt
invalidates_always(outcome) == TRUE

\* the branch of lines 811-816: only "if result.success" reaches invalidate
invalidates(outcome) == outcome = "updated"

\* no iteration of the update loop has run
NoIteration ==
    [mod_ref |-> None, outcome |-> "none", versions |-> <<>>,
     before |-> EmptyMap, after |-> EmptyMap]

\* ModInstallerApp after _load_mods (lines 435-437) with the answers of the
\* API and the version cache as the earlier workflows left it
UpdateIdle(api, version_cache) ==
    [is_installing |-> FALSE, queue |-> <<>>, workers |-> <<>>, refused |-> FALSE,
     api |-> api, version_cache |-> version_cache, i |-> 0,
     success_count |-> 0, fail_count |-> 0, last |-> NoIteration]

updateFrame == <<catalog, resolverVars, resolved_mods, gap_analysis, phases, overall,
                 install_idx, failed_mods, downloads, scans, finished, disk_before,
                 last_call, cli, server>>

\* ModInstallerApp._update_mods (lines 763-831) up to the start of the thread
UpdateStart ==
    /\ pc = "idle"
    /\ ~installing_guard(gui.is_installing)
    /\ gui' = [gui EXCEPT !.is_installing = TRUE]
    /\ pc' = "update_thread"
    /\ UNCHANGED <<mod_references, disk, updateFrame>>

\* the end of one iteration of the loop for mod_ref (lines 793-821): got is
\* what get_or_fetch answered, dir the directory of the mod afterwards
IterationEnds(mod_ref, got, outcome, dir) ==
    LET after == IF invalidates(outcome)
                 THEN invalidate(got.version_cache, mod_ref)
                 ELSE got.version_cache
    IN /\ gui' = [gui EXCEPT
                    !.version_cache = after,
                    !.i = @ + 1,
                    !.success_count = IF outcome = "updated" THEN @ + 1 ELSE @,
                    !.fail_count = IF outcome = "updated" THEN @ ELSE @ + 1,
                    !.last = [mod_ref |-> mod_ref, outcome |-> outcome,
                              versions |-> got.versions,
                              before |-> gui.version_cache, after |-> after]]
       /\ disk' = [disk EXCEPT ![mod_ref] = dir]

\* one iteration of the loop of update_thread (lines 787-821)
UpdateIteration ==
    /\ pc = "update_thread"
    /\ gui.i < Len(mod_references)
    /\ LET mod_ref == mod_references[gui.i + 1]
           got == get_or_fetch(gui.version_cache, mod_ref, gui.api)
       IN IF got.versions = <<>>
          THEN IterationEnds(mod_ref, got, "no_versions", disk[mod_ref])
          ELSE IF ~got.versions[1].download_url
          THEN IterationEnds(mod_ref, got, "no_download_url", disk[mod_ref])
          ELSE \E content \in ArchiveContents :
               \E result \in download_and_install(disk[mod_ref], content) :
                  IterationEnds(mod_ref, got,
                                IF result.success THEN "updated" ELSE "install_failed",
                                result.dir)
    /\ UNCHANGED <<mod_references, pc, updateFrame>>

\* the loop is over: _on_update_complete is handed to the event loop (line
\* 823)
UpdateEnd ==
    /\ pc = "update_thread"
    /\ gui.i = Len(mod_references)
    /\ gui' = [gui EXCEPT !.queue = Append(@, [name |-> "_on_update_complete",
                                                success |-> TRUE])]
    /\ pc' = "posted"
    /\ UNCHANGED <<mod_references, disk, updateFrame>>

\* the constructor of line 782 or the lookup of line 792 raises: the handler
\* of lines 827-829 hands _on_update_complete_error to the event loop
UpdateRaise ==
    /\ pc = "update_thread"
    /\ gui.i < Len(mod_references)
    /\ gui' = [gui EXCEPT !.queue = Append(@, [name |-> "_on_update_complete_error",
                                                success |-> FALSE])]
    /\ pc' = "posted"
    /\ UNCHANGED <<mod_references, disk, updateFrame>>

\* Specification of one update of any list of at most MaxInput mods of the
\* updates panel, all of them installed, whatever the API answers and
\* whatever lists the version cache holds for some of the identifiers; the
\* event loop runs the completion callback as in SpecGui
InitUpdate ==
    /\ catalog = [x \in Ids |-> NotInCatalog]
    /\ mod_references \in SeqsUpTo(UpdateIds, MaxInput) \ {<<>>}
    /\ pc = "idle"
    /\ cache = EmptyMap
    /\ errors = EmptyMap
    /\ all_needed = {}
    /\ to_process = <<>>
    /\ queried = <<>>
    /\ enqueuedBy = [x \in Ids |-> {}]
    /\ resolved_list = <<>>
    /\ disk = [x \in Ids |-> IF x \in UpdateIds
                             THEN [exists |-> TRUE, files |-> {"uplugin", "pak"}]
                             ELSE Absent]
    /\ disk_before = [x \in Ids |-> Absent]
    /\ resolved_mods = <<>>
    /\ gap_analysis = NoGapAnalysis
    /\ phases = <<>>
    /\ overall = None
    /\ install_idx = 0
    /\ failed_mods = <<>>
    /\ downloads = <<>>
    /\ scans = 0
    /\ finished = <<>>
    /\ last_call = NoCall
    /\ cli = CliIdle
    /\ \E api \in [UpdateIds -> VersionLists] : \E cached \in SUBSET UpdateIds :
       \E version_cache \in [cached -> VersionLists] :
          gui = UpdateIdle(api, version_cache)
    /\ server = ServerIdle

NextUpdate == UpdateStart \/ UpdateIteration \/ UpdateEnd \/ UpdateRaise \/ HandleCallback

SpecUpdate == InitUpdate /\ [][NextUpdate]_vars

\* ------------------------------------------------------------------------
\* install.py, the installer of the dedicated server: main, install_mod and
\* extract_smod with the archives and extraction directories they leave in
\* temp_downloads
\* ------------------------------------------------------------------------
\* line 302: the priority of an entry of the list that names none
DefaultPriority == 99

\* the entries of mods-list.json the model distinguishes: a reference, a
\* category and a priority above the default, below it, or none
ModsListEntries ==
    {[mod_reference |-> r, category |-> c, priority |-> p] :
        r \in UpdateIds, c \in {"content", "cheat"},
        p \in {DefaultPriority - 1, DefaultPriority + 1}}
    \cup {[mod_reference |-> r, category |-> c] : r \in UpdateIds, c \in {"content", "cheat"}}

\* the sort key of line 302: x.get("priority", 99)
priority_key(m) ==
    IF "priority" \in DOMAIN m THEN m.priority ELSE DefaultPriority

\* mods.sort(key=...) of line 302: a stable sort, so an entry comes after the
\* entries of a smaller key and after the earlier entries of the same key
sort_by_priority(mods) ==
    LET n == Len(mods)
        before(i) == {j \in 1..n : \/ priority_key(mods[j]) < priority_key(mods[i])
                                   \/ /\ priority_key(mods[j]) = priority_key(mods[i])
                                      /\ j < i}
    IN [p \in 1..n |-> mods[CHOOSE i \in 1..n : Cardinality(before(i)) + 1 = p]]

\* extract_smod (lines 115-171) for the mod directory dir and an archive
\* whose copied files are content: what it returns, whether the extraction
\* directory exists afterwards and the mod directory it leaves; extract_dir
\* is whether the extraction directory existed before
extract_smod(dir, content, extract_dir) ==
    \* rmtree of an old extraction directory (line 121) or mkdir (line 122)
    \* raises
    {[ok |-> FALSE, extract_dir |-> e, dir |-> dir] : e \in {extract_dir, FALSE}}
    \cup
    \* ZipFile or extractall raises (lines 125-126)
    {[ok |-> FALSE, extract_dir |-> TRUE, dir |-> dir]}
    \cup
    \* rmtree of the old mod directory (line 131) or a copy (lines 136-156)
    \* raises: the old directory is gone or partly gone, or the new one is
    \* partly written
    {[ok |-> FALSE, extract_dir |-> TRUE, dir |-> d] :
        d \in {Absent} \cup {[exists |-> TRUE, files |-> f] :
                                f \in SUBSET (dir.files \cup content)}}
    \cup
    \* the copy went through and the extraction directory is removed (line
    \* 160): the result is whether a file was copied (line 162)
    {[ok |-> content # {}, extract_dir |-> FALSE,
      dir |-> IF content = {} THEN Absent ELSE [exists |-> TRUE, files |-> content]]}

\* install_mod (lines 173-231) for the mod directory dir and the entry temp
\* of the mod in temp_downloads: how it ends ("True", "False" or "raised"),
\* the mod directory and the entry of temp_downloads it leaves
install_mod(dir, temp) ==
    \* get_mod_info raises: graphql_query catches URLError only (line 66), not
    \* a failed read or a body that is no JSON
    {[returned |-> "raised", dir |-> dir, temp |-> temp]}
    \cup
    \* no such mod, no versions, no LinuxServer target (lines 182-201)
    {[returned |-> "False", dir |-> dir, temp |-> temp]}
    \cup
    \* download_file fails (line 214) before or after it opened the file
    {[returned |-> "False", dir |-> dir, temp |-> [temp EXCEPT !.smod = s]] :
        s \in {temp.smod, TRUE}}
    \cup
    \* the download is no archive (lines 218-221)
    {[returned |-> "False", dir |-> dir, temp |-> [temp EXCEPT !.smod = FALSE]]}
    \cup
    \* extract_smod fails (lines 224-225) or succeeds (lines 227-231)
    UNION {{IF o.ok
            THEN [returned |-> "True", dir |-> o.dir,
                  temp |-> [smod |-> FALSE, extract_dir |-> o.extract_dir]]
            ELSE [returned |-> "False", dir |-> o.dir,
                  temp |-> [smod |-> TRUE, extract_dir |-> o.extract_dir]] :
            o \in extract_smod(dir, content, temp.extract_dir)} :
           content \in ArchiveContents}

serverFrame == <<catalog, mod_references, resolverVars, resolved_mods, gap_analysis,
                 phases, overall, install_idx, failed_mods, downloads, scans, finished,
                 disk_before, last_call, cli, gui>>

\* main up to the loop (lines 263-308): the list of mods-list.json is
\* loaded, filtered by the category of the command line and sorted
ServerMain ==
    /\ pc = "idle"
    /\ \E mods \in SeqsUpTo(ModsListEntries, MaxInput) :
       \E category_filter \in {None, "content", "cheat"} :
          LET listed == IF category_filter = None THEN mods
                        ELSE SelectSeq(mods, LAMBDA m : m.category = category_filter)
          IN server' = [server EXCEPT !.listed = listed,
                                      !.mods = sort_by_priority(listed)]
    /\ pc' = "installing"
    /\ UNCHANGED <<disk, serverFrame>>

\* one iteration of the loop of main (lines 310-315); an exception of
\* install_mod ends the process with status 1
ServerInstallMod ==
    /\ pc = "installing"
    /\ Len(server.attempted) < Len(server.mods)
    /\ LET mod == server.mods[Len(server.attempted) + 1]
           ref == mod.mod_reference
       IN \E o \in install_mod(disk[ref], server.temp[ref]) :
          /\ server' = [server EXCEPT
                !.attempted = Append(@, mod),
                !.returned = Append(@, o.returned),
                !.success_count = IF o.returned = "True" THEN @ + 1 ELSE @,
                !.fail_count = IF o.returned = "False" THEN @ + 1 ELSE @,
                !.temp[ref] = o.temp,
                !.exit_status = IF o.returned = "raised" THEN 1 ELSE @]
          /\ disk' = [disk EXCEPT ![ref] = o.dir]
          /\ pc' = IF o.returned = "raised" THEN "exited" ELSE pc
    /\ UNCHANGED serverFrame

\* the end of main (lines 317-334) and sys.exit (line 337)
ServerReturn ==
    /\ pc = "installing"
    /\ Len(server.attempted) = Len(server.mods)
    /\ server' = [server EXCEPT !.exit_status = IF server.fail_count = 0 THEN 0 ELSE 1]
    /\ pc' = "exited"
    /\ UNCHANGED <<disk, serverFrame>>

\* Specification of one run of install.py on any list of at most MaxInput
\* entries, with an empty Mods directory and an empty temp_downloads
InitServer ==
    /\ catalog = [x \in Ids |-> NotInCatalog]
    /\ mod_references = <<>>
    /\ pc = "idle"
    /\ cache = EmptyMap
    /\ errors = EmptyMap
    /\ all_needed = {}
    /\ to_process = <<>>
    /\ queried = <<>>
    /\ enqueuedBy = [x \in Ids |-> {}]
    /\ resolved_list = <<>>
    /\ InstallerIdle
    /\ last_call = NoCall
    /\ cli = CliIdle
    /\ gui = GuiIdle
    /\ server = ServerIdle

NextServer == ServerMain \/ ServerInstallMod \/ ServerReturn

SpecServer == InitServer /\ [][NextServer]_vars

\* ------------------------------------------------------------------------
\* Properties of resolve_all (checked under SpecResolver)
\* ------------------------------------------------------------------------
\* the resolved dependencies of a resolved reference
DepsOf(ref) == RangeOf(cache[ref].dependencies) \cap DOMAIN cache

\* the references reachable from ref over resolved dependencies, ref included
RECURSIVE ReachFrom(_)
ReachFrom(S) ==
    LET T == S \cup UNION {DepsOf(x) : x \in S} IN IF T = S THEN S ELSE ReachFrom(T)

Reaches(a, b) == b \in ReachFrom({a})

\* C1: the list returned by resolve_all contains the runtime reference SML
\* and SML is its first element, whatever the input list and the catalog.
C1_RuntimeFirst ==
    pc = "resolved" => (Len(resolved_list) > 0 /\ resolved_list[1] = SML)

\* C2 as stated: in the list returned by resolve_all every reference comes
\* strictly after each of its dependencies that is in the list, for cyclic
\* catalogs too (the depth ceiling cannot be reached with Cardinality(Ids)
\* <= DepthCeiling references).
C2_DependencyFirstAlways ==
    pc = "resolved" =>
        \A i, j \in 1..Len(resolved_list) :
            resolved_list[j] \in RangeOf(cache[resolved_list[i]].dependencies) => j < i

\* C2 amended: every reference comes strictly after each of its dependencies
\* that is in the list and does not itself depend, directly or transitively,
\* on that reference.
C2_DependencyFirstAcyclic ==
    pc = "resolved" =>
        \A i, j \in 1..Len(resolved_list) :
            (/\ resolved_list[j] \in RangeOf(cache[resolved_list[i]].dependencies)
             /\ ~Reaches(resolved_list[j], resolved_list[i]))
            => j < i

\* C2 witness: requested [A], A depends on B, B has no dependency: B comes
\* before A
C2_Witness ==
    /\ pc = "resolved"
    /\ mod_references = <<"A">>
    /\ "A" \in DOMAIN cache /\ cache["A"].dependencies = <<"B">>
    /\ "B" \in DOMAIN cache /\ cache["B"].dependencies = <<>>
    /\ resolved_list = <<"B", "A">>

\* C10: a reference whose lookup fails is in the errors map, is not in the
\* resolved list and has enqueued none of its dependencies; every requested
\* reference whose lookup succeeds is in the resolved list.
C10_FailedLookupIsLocal ==
    /\ \A ref \in RangeOf(queried) :
          catalog[ref].version = None =>
              /\ ref \in DOMAIN errors
              /\ ref \notin DOMAIN cache
              /\ ref \notin RangeOf(resolved_list)
              /\ enqueuedBy[ref] = {}
    /\ pc = "resolved" =>
          \A ref \in RangeOf(mod_references) :
              catalog[ref].version # None => ref \in RangeOf(resolved_list)

\* C10 witness: a requested reference failed its lookup, the catalog lists a
\* resolvable dependency for it that was therefore never resolved, and another
\* requested reference is in the resolved list
C10_Witness ==
    /\ pc = "resolved"
    /\ \E bad, good \in RangeOf(mod_references) :
          /\ catalog[bad].version = None
          /\ bad \in DOMAIN errors
          /\ \E d \in RangeOf(catalog[bad].deps) :
                d # SML /\ catalog[d].version # None /\ d \notin RangeOf(resolved_list)
          /\ good \in RangeOf(resolved_list)

\* ------------------------------------------------------------------------
\* The closure of resolve_all (checked under SpecClosure), its termination
\* (under FairResolver) and its catalog queries
\* ------------------------------------------------------------------------
\* the lookup of x succeeds
LookupSucceeds(x) == x \in DOMAIN catalog /\ catalog[x].version # None

\* the dependency edges of a resolved mod: the entries of its latest version
\* but the runtime, as its ResolvedMod.dependencies lists them
DependencyEdges(x) == {d \in RangeOf(catalog[x].deps) : d # SML}

\* the successfully looked up references reachable from those of S
RECURSIVE ClosureOf(_)
ClosureOf(S) ==
    LET T == S \cup {d \in UNION {DependencyEdges(x) : x \in S} : LookupSucceeds(d)}
    IN  IF T = S THEN S ELSE ClosureOf(T)

ExpectedClosure == ClosureOf({r \in RangeOf(mod_references) : LookupSucceeds(r)})

\* C23: the references in the list returned by resolve_all are exactly those
\* reachable from the requested references over the dependencies of
\* successfully resolved mods whose own lookup succeeds, each exactly once,
\* for cyclic catalogs and for chains the ordering cuts at its depth ceiling.
C23_OutputIsClosure ==
    pc = "resolved" =>
        /\ RangeOf(resolved_list) = ExpectedClosure
        /\ NoDup(resolved_list)

\* C23 witness: a chain without cycle, longer than the depth ceiling, all of
\* it returned, and the ordering was cut: a mod is listed before its own
\* dependency
C23_Witness ==
    /\ pc = "resolved"
    /\ Len(resolved_list) > DepthCeiling + 1
    /\ \A x \in DOMAIN cache : Chain[1] \notin RangeOf(cache[x].dependencies)
    /\ \E i, j \in 1..Len(resolved_list) :
          i < j /\ resolved_list[j] \in RangeOf(cache[resolved_list[i]].dependencies)

\* C24: resolve_all terminates for every catalog and every input list,
\* with dependency cycles, self-dependencies, repeated input references and
\* failing lookups.
C24_ResolveAllTerminates == <>(pc = "resolved")

\* C24 witness: resolve_all has returned on an input that repeats a
\* reference, with a mod that depends on itself and on a reference whose
\* lookup failed
C24_Witness ==
    /\ pc = "resolved"
    /\ Len(mod_references) = 2 /\ mod_references[1] = mod_references[2]
    /\ \E x \in DOMAIN cache :
          /\ x \in RangeOf(cache[x].dependencies)
          /\ \E d \in RangeOf(cache[x].dependencies) : d \in DOMAIN errors /\ d \notin DOMAIN cache

\* how often ref occurs in the sequence s
Occurrences(s, ref) == Cardinality({i \in 1..Len(s) : s[i] = ref})

\* C25: a reference that is in the resolved cache is never queried again in
\* the same run, neither when the input repeats it nor when a later mod
\* depends on it: it was queried once.
C25_ResolvedNeverRequeried ==
    \A ref \in DOMAIN cache : Occurrences(queried, ref) = 1

\* C25 witness: B is requested twice and the later mod A depends on it; B was
\* queried once
C25_Witness ==
    /\ pc = "resolved"
    /\ mod_references = <<"B", "B">>
    /\ "A" \in DOMAIN cache /\ "B" \in RangeOf(cache["A"].dependencies)
    /\ queried = <<"B", "A">>

\* C26 as stated: no reference is queried twice in one run, failed lookups
\* included.
C26_EachQueriedOnce == NoDup(queried)

\* the resolved mods that list ref as a dependency
ListedBy(ref) == {m \in DOMAIN cache : ref \in RangeOf(cache[m].dependencies)}

\* C26 amended: a reference whose lookup succeeded is queried once; one whose
\* lookup failed is queried at most once for each of its occurrences in the
\* input and once more for each resolved mod that lists it.
C26_QueriesBounded ==
    \A ref \in RangeOf(queried) :
        IF LookupSucceeds(ref)
        THEN Occurrences(queried, ref) = 1
        ELSE Occurrences(queried, ref)
                <= Occurrences(mod_references, ref) + Cardinality(ListedBy(ref))

\* C26 witness: the failed reference B was queried twice, once as requested
\* and once as the dependency of the later mod A
C26_Witness ==
    /\ pc = "resolved"
    /\ mod_references = <<"B", "A">>
    /\ ~LookupSucceeds("B")
    /\ queried = <<"B", "A", "B">>

\* the position of ref in the returned list
PositionOf(ref) == CHOOSE i \in 1..Len(resolved_list) : resolved_list[i] = ref

\* C27: of two requested references other than SML with no dependency path
\* between them, the one earlier in the input list is earlier in the
\* returned list.
C27_OutputFollowsInputOrder ==
    pc = "resolved" =>
        \A i, j \in 1..Len(mod_references) :
            LET a == mod_references[i]
                b == mod_references[j]
            IN  (/\ i < j
                 /\ a # SML /\ b # SML
                 /\ a \in RangeOf(resolved_list) /\ b \in RangeOf(resolved_list)
                 /\ ~Reaches(a, b) /\ ~Reaches(b, a))
                => PositionOf(a) < PositionOf(b)

\* ------------------------------------------------------------------------
\* Properties of run_full_installation (checked under Spec)
\* ------------------------------------------------------------------------
HasPhase(name) == \E i \in 1..Len(phases) : phases[i].phase_name = name

PhaseSuccess(name) ==
    phases[CHOOSE i \in 1..Len(phases) : phases[i].phase_name = name].success

\* the Mods directory has a valid directory for ref
ValidOnDisk(ref) ==
    disk[ref].exists /\ ("uplugin" \in disk[ref].files \/ "pak" \in disk[ref].files)

\* the resolved references that are not broken
NonBroken ==
    {resolved_mods[i].mod_reference : i \in {k \in 1..Len(resolved_mods) :
        resolved_mods[k].compatibility_warning = None}}

\* C3: after phase3_gap_analysis missing_mods, invalid_mods and valid_mods
\* are pairwise disjoint, their union is needed_mods, and a needed reference
\* is missing iff it has no directory, invalid iff its directory is not
\* valid, valid otherwise.
C3_GapPartition ==
    gap_analysis.performed =>
        LET g == gap_analysis
            missing == RangeOf(g.missing_mods)
            invalid == RangeOf(g.invalid_mods)
            valid == RangeOf(g.valid_mods)
        IN  /\ missing \cap invalid = {}
            /\ missing \cap valid = {}
            /\ invalid \cap valid = {}
            /\ missing \cup invalid \cup valid = RangeOf(g.needed_mods)
            /\ Len(g.missing_mods) + Len(g.invalid_mods) + Len(g.valid_mods)
                  = Len(g.needed_mods)
            /\ NoDup(g.needed_mods)
            \* until the install phase changes the directory
            /\ (HasPhase("Gap Analysis") /\ downloads = <<>>) =>
                  \A ref \in RangeOf(g.needed_mods) :
                      /\ ref \in missing <=> ~disk[ref].exists
                      /\ ref \in invalid <=> (disk[ref].exists /\ ~ValidOnDisk(ref))
                      /\ ref \in valid <=> ValidOnDisk(ref)

\* C3 witness: a gap analysis that found a missing and an invalid reference
C3_Witness ==
    /\ pc = "install"
    /\ gap_analysis.performed
    /\ Len(gap_analysis.missing_mods) > 0
    /\ Len(gap_analysis.invalid_mods) > 0

\* the number of the run the phase results belong to
CurrentRun == IF pc \in {"idle", "done"} THEN Len(finished) ELSE Len(finished) + 1

\* C4 as stated: in a run that follows another run the gap analysis finds
\* all_ok and nothing to install.
C4_SecondRunAllOk ==
    (CurrentRun >= 2 /\ HasPhase("Gap Analysis")) =>
        (all_ok(gap_analysis) /\ mods_to_install(gap_analysis) = <<>>)

\* C4 amended: in a run that follows a run that returned overall success the
\* gap analysis finds all_ok and nothing to install.
C4_RunAfterSuccessAllOk ==
    (CurrentRun >= 2 /\ finished[CurrentRun - 1] = TRUE /\ HasPhase("Gap Analysis")) =>
        (all_ok(gap_analysis) /\ mods_to_install(gap_analysis) = <<>>)

\* C4 witness: the second run after a successful first run has analysed the
\* gaps of at least one needed reference
C4_Witness ==
    /\ pc = "done"
    /\ CurrentRun = 2 /\ finished[1] = TRUE
    /\ HasPhase("Gap Analysis")
    /\ Len(gap_analysis.needed_mods) > 0

\* C5: a reference the catalog reports as Broken is in the resolved list
\* with a compatibility warning once resolve_all has looked it up, is never
\* in needed_mods or mods_to_install, and download_and_install is never
\* called for it.
C5_BrokenNeverInstalled ==
    \A ref \in Ids :
        (catalog[ref].version # None /\ catalog[ref].broken) =>
            /\ (pc \notin {"idle", "resolving"} /\ ref \in RangeOf(queried)) =>
                  /\ ref \in RangeOf(resolved_list)
                  /\ ref \in RangeOf(RefsOf(resolved_mods))
                  /\ ModOf(resolved_mods, ref).compatibility_warning # None
                  /\ ref \in DOMAIN errors
            /\ ref \notin RangeOf(gap_analysis.needed_mods)
            /\ ref \notin RangeOf(mods_to_install(gap_analysis))
            /\ ref \notin RangeOf(downloads)

\* C5 witness: a run that resolved a broken reference whose directory is not
\* valid and that went through its install phase
C5_Witness ==
    /\ pc = "done"
    /\ HasPhase("Install Missing")
    /\ downloads # <<>>
    /\ \E ref \in RangeOf(resolved_list) : catalog[ref].broken /\ ~ValidOnDisk(ref)

\* C6: phase5_final_verify reports success iff every resolved reference that
\* is not broken has a valid directory.
C6_FinalVerifySkipsBroken ==
    (pc = "done" /\ HasPhase("Final Verification")) =>
        (PhaseSuccess("Final Verification") <=> \A ref \in NonBroken : ValidOnDisk(ref))

\* C7: when the gap analysis finds all_ok the run has no install phase and
\* returns overall success.
C7_AllOkShortCircuit ==
    (pc = "done" /\ HasPhase("Gap Analysis") /\ all_ok(gap_analysis)) =>
        (~HasPhase("Install Missing") /\ overall = TRUE)

\* C8: when a reference resolved, the overall success is the success of the
\* final verification, whatever the install phase reported: a run whose
\* install phase reported failures succeeds iff every needed reference has a
\* valid directory at the end.
C8_OverallIsFinalVerify ==
    (pc = "done" /\ Len(resolved_list) > 0) =>
        /\ HasPhase("Final Verification")
        /\ overall = PhaseSuccess("Final Verification")
        /\ (HasPhase("Install Missing") /\ ~PhaseSuccess("Install Missing")) =>
              (overall = TRUE <=>
                  \A ref \in RangeOf(gap_analysis.needed_mods) : ValidOnDisk(ref))

\* C9: the resolve phase succeeds iff a lookup succeeded; a run in which none
\* did returns (False, [resolution result]) without a scan, a gap analysis,
\* a download or a change of the Mods directory.
C9_NothingResolvedStops ==
    /\ HasPhase("Dependency Resolution") =>
          (PhaseSuccess("Dependency Resolution")
              <=> \E ref \in RangeOf(queried) : catalog[ref].version # None)
    /\ (pc = "done" /\ \A ref \in RangeOf(queried) : catalog[ref].version = None) =>
          /\ overall = FALSE
          /\ phases = <<PhaseResult("Dependency Resolution", FALSE)>>
          /\ scans = 0
          /\ downloads = <<>>
          /\ disk = disk_before

\* C9 witness: a run over a directory with installed mods that looked a
\* reference up, resolved nothing and returned
C9_Witness ==
    /\ pc = "done"
    /\ queried # <<>>
    /\ Len(resolved_list) = 0
    /\ \E ref \in Ids : disk[ref].exists

\* the references of mods_to_install that have a download URL (the catalog
\* has a Windows target for them), in order
WithUrl(todo) == SelectSeq(todo, LAMBDA ref : catalog[ref].windows)

\* the references of mods_to_install that have no download URL
WithoutUrl(todo) == {ref \in RangeOf(todo) : ~catalog[ref].windows}

\* s is t with some elements left out: same order, nothing twice
IsSubSeq(s, t) ==
    \E keep \in SUBSET (1..Len(t)) : s = SelectSeq(t, LAMBDA x : \E i \in keep : t[i] = x)

\* C11: phase4_install_missing handles every reference of mods_to_install
\* once and in list order: download_and_install is called exactly for the
\* references with a download URL, one after the other whatever the earlier
\* ones returned; a reference without a URL is recorded as failed without a
\* download; the phase reports success iff no reference failed.
C11_InstallEachOnceInOrder ==
    LET todo == mods_to_install(gap_analysis) IN
    /\ pc = "installing" =>
          LET handled == SubSeq(todo, 1, install_idx - 1) IN
          /\ install_idx \in 1..Len(todo)
          /\ downloads = WithUrl(handled)
          /\ WithoutUrl(handled) \subseteq RangeOf(failed_mods)
          /\ IsSubSeq(failed_mods, handled)
    /\ (pc \in {"verify", "done"} /\ HasPhase("Install Missing")) =>
          /\ NoDup(todo)
          /\ downloads = WithUrl(todo)
          /\ WithoutUrl(todo) \subseteq RangeOf(failed_mods)
          /\ IsSubSeq(failed_mods, todo)
          /\ PhaseSuccess("Install Missing") <=> failed_mods = <<>>

\* C11 witness: an install phase over two references in which the first was
\* skipped for want of a download URL and the second was downloaded
C11_Witness ==
    LET todo == mods_to_install(gap_analysis) IN
    /\ pc = "verify"
    /\ HasPhase("Install Missing")
    /\ Len(todo) = 2
    /\ ~catalog[todo[1]].windows
    /\ failed_mods = <<todo[1]>>
    /\ downloads = <<todo[2]>>

\* the position of x in the sequence s
IndexIn(s, x) == CHOOSE i \in 1..Len(s) : s[i] = x

\* C32 as stated: of two references the install phase downloads, one a
\* dependency of the other, the dependency is downloaded first.
C32_InstallDependencyFirst ==
    \A i, j \in 1..Len(downloads) :
        (/\ i # j
         /\ downloads[j] \in RangeOf(ModOf(resolved_mods, downloads[i]).dependencies))
        => j < i

\* C32 amended: the install phase downloads the missing references before
\* the invalid ones, and two missing or two invalid references in the order
\* they have in resolved_mods.
C32_InstallMissingThenInvalid ==
    \A i, j \in 1..Len(downloads) :
        LET a == downloads[i]
            b == downloads[j]
            missing == RangeOf(gap_analysis.missing_mods)
            invalid == RangeOf(gap_analysis.invalid_mods)
            order == RefsOf(resolved_mods)
        IN  /\ a \in missing \/ a \in invalid
            /\ (a \in missing /\ b \in invalid) => i < j
            /\ ((a \in missing <=> b \in missing) /\ IndexIn(order, a) < IndexIn(order, b))
                  => i < j

\* C32 witness: SML depends on A and comes after it in resolved_mods; SML was
\* missing and A invalid, and SML was downloaded before A
C32_Witness ==
    /\ RefsOf(resolved_mods) = <<"A", "SML">>
    /\ "A" \in RangeOf(ModOf(resolved_mods, SML).dependencies)
    /\ gap_analysis.missing_mods = <<SML>>
    /\ gap_analysis.invalid_mods = <<"A">>
    /\ downloads = <<SML, "A">>

\* the names of the five phases in the order of run_full_installation
PhaseOrder ==
    <<"Dependency Resolution", "Mod Scan", "Gap Analysis", "Install Missing",
      "Final Verification">>

PhaseNames == [i \in 1..Len(phases) |-> phases[i].phase_name]

\* C28: the phase results of run_full_installation are in the order
\* Dependency Resolution, Mod Scan, Gap Analysis, Install Missing, Final
\* Verification, none twice; when the run has returned, Install Missing is
\* among them iff the gap analysis was not all_ok and Final Verification
\* is among them whenever the resolution succeeded.
C28_PhasesInFixedOrder ==
    /\ IsSubSeq(PhaseNames, PhaseOrder)
    /\ pc = "done" =>
          /\ HasPhase("Dependency Resolution")
          /\ IF PhaseSuccess("Dependency Resolution")
             THEN /\ HasPhase("Mod Scan") /\ HasPhase("Gap Analysis")
                  /\ HasPhase("Install Missing") <=> ~all_ok(gap_analysis)
                  /\ HasPhase("Final Verification")
             ELSE Len(phases) = 1

\* C28 witness: a second run has returned with all five phases after a first
\* run, so the list was started anew
C28_Witness ==
    /\ pc = "done"
    /\ Len(finished) = 2
    /\ PhaseNames = PhaseOrder
    /\ ~all_ok(gap_analysis)

\* ------------------------------------------------------------------------
\* Properties of the direct calls on a Mods directory (checked under SpecDir)
\* ------------------------------------------------------------------------
\* the last call was download_and_install
Downloaded == last_call.op = "download_and_install"

\* the reference download_and_install was called for
DownloadRef == last_call.refs[1]

\* C12: when the downloaded file is smaller than 1000 bytes,
\* download_and_install returns success = False with the too-small message
\* and the Mods directory is as it was before the call.
C12_TooSmallLeavesDestination ==
    (Downloaded /\ last_call.result.downloaded /\ last_call.result.size < 1000) =>
        /\ last_call.result.success = FALSE
        /\ last_call.result.message = "Download failed or file too small"
        /\ disk = last_call.before

\* C12 witness: a download of 999 bytes for a reference that has a complete
\* installation
C12_Witness ==
    /\ Downloaded
    /\ last_call.result.downloaded
    /\ last_call.result.size = 999
    /\ last_call.before[DownloadRef] = [exists |-> TRUE, files |-> {"uplugin", "pak"}]
    /\ last_call.content = {"uplugin", "pak"}

\* C13: when the copy to the destination fails after the old directory was
\* removed, the destination directory is absent afterwards and a scan does
\* not list the reference.
C13_FailedCopyLeavesNoDirectory ==
    (Downloaded /\ last_call.result.at = "copytree") =>
        /\ ~disk[DownloadRef].exists
        /\ DownloadRef \notin DOMAIN scan_installed(disk)

\* C14: download_and_install returns success = True only if the destination
\* directory exists and holds at least one file afterwards; an archive that
\* is unpacked and copied without error but holds no file gives success =
\* False.
C14_SuccessMeansFiles ==
    Downloaded =>
        /\ last_call.result.success = TRUE =>
              (disk[DownloadRef].exists /\ disk[DownloadRef].files # {})
        /\ (last_call.result.at = "return" /\ last_call.content = {}) =>
              last_call.result.success = FALSE

\* C14 witness: an archive without files was unpacked and copied without an
\* error
C14_Witness ==
    /\ Downloaded
    /\ last_call.result.at = "return"
    /\ last_call.content = {}
    /\ disk[DownloadRef] = [exists |-> TRUE, files |-> {}]
    /\ last_call.result.message = "No files extracted from archive"

\* C15: whatever way download_and_install returns, the download directory
\* and the extraction directory it created are removed.
C15_ScratchRemoved ==
    Downloaded =>
        /\ last_call.result.temp_dir \in {"none", "removed"}
        /\ last_call.result.extract_dir \in {"none", "removed"}
        /\ last_call.result.at \notin {"none", "mkdtemp"} =>
              last_call.result.temp_dir = "removed"
        /\ last_call.result.at \in {"extract", "rmtree", "copytree", "return"} =>
              last_call.result.extract_dir = "removed"

\* C15 witness: the call ended in a failed copy, after both scratch
\* directories were created
C15_Witness ==
    /\ Downloaded
    /\ last_call.result.at = "copytree"
    /\ last_call.result.message = "Installation error"
    /\ last_call.result.temp_dir = "removed"
    /\ last_call.result.extract_dir = "removed"

\* C16: scan_installed lists exactly the existing directories; a directory
\* is valid iff it has a .uplugin file or a .pak file: manifest alone is
\* valid with the content-less message, content alone is valid with the
\* missing-manifest warning, both is "Valid", neither is invalid with the
\* missing-manifest-and-no-content message.
C16_ValidIffManifestOrContent ==
    last_call.op = "scan_installed" =>
        \A ref \in Ids :
            /\ ref \in DOMAIN last_call.scan <=> disk[ref].exists
            /\ disk[ref].exists =>
                  LET st == last_call.scan[ref]
                      manifest == "uplugin" \in disk[ref].files
                      paks == "pak" \in disk[ref].files
                  IN  /\ st.valid <=> (manifest \/ paks)
                      /\ (manifest /\ ~paks) =>
                            st.message = "No pak files found (content-less mod?)"
                      /\ (~manifest /\ paks) =>
                            st.message = "Missing .uplugin file (may still work)"
                      /\ (manifest /\ paks) => st.message = "Valid"
                      /\ (~manifest /\ ~paks) =>
                            st.message = "Missing .uplugin and no pak files"

\* C16 witness: a scan of a directory with a manifest-only mod, a
\* content-only mod and a mod with neither
C16_Witness ==
    /\ last_call.op = "scan_installed"
    /\ disk["SML"].exists /\ disk["SML"].files = {"uplugin"}
    /\ disk["A"].exists /\ disk["A"].files = {"pak", "other"}
    /\ disk["B"].exists /\ disk["B"].files = {"other"}

\* C17: get_missing_mods(required) returns, in the order of required, the
\* required references that have no directory or no valid directory, and
\* nothing else.
C17_MissingAreAbsentOrInvalid ==
    last_call.op = "get_missing_mods" =>
        /\ last_call.out1 = SelectSeq(last_call.refs, LAMBDA ref : ~ValidOnDisk(ref))
        /\ \A ref \in RangeOf(last_call.out1) :
              ref \in RangeOf(last_call.refs) /\ ~ValidOnDisk(ref)

\* C17 witness: of two required references the first has a valid directory
\* and the second a directory that is not valid
C17_Witness ==
    /\ last_call.op = "get_missing_mods"
    /\ Len(last_call.refs) = 2
    /\ ValidOnDisk(last_call.refs[1])
    /\ disk[last_call.refs[2]].exists
    /\ last_call.out1 = <<last_call.refs[2]>>

\* C18: cleanup_obsolete_mods(valid) leaves every directory named in valid as
\* it was, removes or fails to remove every other installed directory, and
\* returns disjoint removed and failed lists whose union is the installed
\* directories not named in valid.
C18_CleanupRemovesOnlyObsolete ==
    last_call.op = "cleanup_obsolete_mods" =>
        LET valid == RangeOf(last_call.refs)
            installed == {x \in Ids : last_call.before[x].exists}
            removed == RangeOf(last_call.out1)
            failed == RangeOf(last_call.out2)
        IN  /\ \A x \in valid : disk[x] = last_call.before[x]
            /\ removed \cap failed = {}
            /\ removed \cup failed = installed \ valid
            /\ NoDup(last_call.out1 \o last_call.out2)
            /\ \A x \in removed : ~disk[x].exists
            /\ \A x \in failed : disk[x].exists

\* C18 witness: one obsolete directory was removed after the removal of
\* another one failed, and a directory named in valid exists
C18_Witness ==
    /\ last_call.op = "cleanup_obsolete_mods"
    /\ last_call.refs = <<"A">>
    /\ last_call.before["A"].exists
    /\ last_call.out1 = <<"B">>
    /\ last_call.out2 = <<"SML">>

\* ------------------------------------------------------------------------
\* Properties of FicsitCLI.install_mods (checked under SpecCli)
\* ------------------------------------------------------------------------
\* the tool exited non-zero and wrote "already exists" or "already present"
SaysAlready(e) ==
    /\ e.ran
    /\ e.returncode = 1
    /\ e.output \in {"profile already exists", "Mod Already Present"}

\* C19: in each of the five steps (installation add, profile new, profile
\* mod add, installation set-profile, apply) a non-zero exit whose output
\* contains "already exists" or "already present" counts as success of the
\* step.
C19_AlreadyDoneIsSuccess ==
    \A i \in 1..Len(cli.log) :
        (/\ cli.log[i].step \in {"installation add", "profile new", "profile mod add",
                                 "installation set-profile", "apply"}
         /\ SaysAlready(cli.log[i]))
        => cli.log[i].success

\* C20: when the profile step of install_mods exits non-zero with output
\* containing "already exists", the step succeeds, no reference is marked
\* failed because of it and the run goes on to add every reference to the
\* profile.
C20_ProfileExistsProceeds ==
    \A i \in 1..Len(cli.log) :
        (/\ cli.log[i].step = "profile new"
         /\ cli.log[i].ran
         /\ cli.log[i].returncode = 1
         /\ cli.log[i].output = "profile already exists")
        => /\ cli.log[i].success
           /\ \A ref \in DOMAIN cli.failed_with_errors :
                 cli.failed_with_errors[ref].prefix # "Profile creation failed"
           /\ \E j \in 1..Len(cli.diagnostics) : cli.diagnostics[j].tag = "[OK] Profile"
           /\ i = Len(cli.log) => (cli.pc = "mods" /\ cli.idx = 1 /\ cli.ret = None)
           /\ cli.pc = "done" =>
                 \A k \in 1..Len(mod_references) :
                     /\ Len(cli.log) >= i + k
                     /\ cli.log[i + k].step = "profile mod add"
                     /\ cli.log[i + k].ref = mod_references[k]

\* C20 witness: a run over two references whose profile step answered
\* "already exists" and that ended in success
C20_Witness ==
    /\ cli.pc = "done"
    /\ Len(mod_references) = 2
    /\ Len(cli.log) >= 2
    /\ cli.log[2].step = "profile new"
    /\ cli.log[2].returncode = 1
    /\ cli.log[2].output = "profile already exists"
    /\ cli.ret = TRUE
    /\ cli.successful = mod_references

\* the tool did not do what the step asked for: it could not be run, timed
\* out, or exited non-zero without saying that the thing exists already
FailedOutright(e) ==
    \/ ~e.ran
    \/ e.returncode = Timeout
    \/ e.returncode = 1 /\ ~SaysAlready(e)

\* C21: when install_mods fails outright partway through, the direct-download
\* backend is called for exactly the requested references that the tool has
\* not reported as succeeded, and for none that it has.
C21_FallbackToDirectDownload ==
    (/\ cli.pc = "done"
     /\ cli.ret = FALSE
     /\ \E i \in 1..Len(cli.log) : FailedOutright(cli.log[i]))
    => RangeOf(downloads) = RangeOf(mod_references) \ RangeOf(cli.successful)

\* the number of requested references
NRefs == Len(mod_references)

\* C29: install_mods runs installation add, profile new, profile mod add for
\* each reference in order, installation set-profile, apply: a step runs only
\* after registration and profile creation succeeded, apply only after the
\* profile was linked too; a failed add stops neither the later adds nor the
\* link and apply steps.
C29_StepsInFixedOrder ==
    /\ Len(cli.log) <= NRefs + 4
    /\ \A i \in 1..Len(cli.log) :
          LET e == cli.log[i] IN
          /\ i = 1 => e.step = "installation add"
          /\ i >= 2 => ~FailedOutright(cli.log[1])
          /\ i = 2 => e.step = "profile new"
          /\ i >= 3 => ~FailedOutright(cli.log[2])
          /\ (i >= 3 /\ i <= NRefs + 2) =>
                (e.step = "profile mod add" /\ e.ref = mod_references[i - 2])
          /\ i = NRefs + 3 => e.step = "installation set-profile"
          /\ i = NRefs + 4 =>
                (e.step = "apply" /\ cli.log[NRefs + 3].ran
                    /\ cli.log[NRefs + 3].returncode = 0)
    /\ cli.pc = "done" =>
          /\ Len(cli.log) >= 1
          /\ ~FailedOutright(cli.log[1]) => Len(cli.log) >= 2
          /\ (Len(cli.log) >= 2 /\ ~FailedOutright(cli.log[2])) =>
                /\ Len(cli.log) >= NRefs + 3
                /\ (cli.log[NRefs + 3].ran /\ cli.log[NRefs + 3].returncode = 0) =>
                      Len(cli.log) = NRefs + 4

\* C29 witness: a run over two references in which the first add failed, the
\* second add succeeded and the apply step was run
C29_Witness ==
    /\ cli.pc = "done"
    /\ NRefs = 2
    /\ Len(cli.log) = 6
    /\ ~cli.log[3].success
    /\ cli.log[4].success
    /\ cli.log[6].step = "apply"

\* what C30 says of the outcome of install_mods apart from the disjointness
OutcomeConsistent ==
    /\ (\/ FailedOutright(cli.log[1])
        \/ (Len(cli.log) = 2 /\ FailedOutright(cli.log[2]))) =>
          (cli.successful = <<>> /\ DOMAIN cli.failed_with_errors = RangeOf(mod_references))
    /\ cli.ret = TRUE =>
          /\ Len(cli.log) = NRefs + 4
          /\ \A i \in 1..Len(cli.log) : cli.log[i].success
          /\ DOMAIN cli.failed_with_errors = {}

\* C30 as stated: in every outcome of install_mods no reference is both in
\* the succeeded list and in the failed map; when registration or profile
\* creation fails, succeeded is empty and every requested reference is in
\* failed; overall success only if all steps succeeded and failed is empty.
C30_OutcomeDisjoint ==
    cli.pc = "done" =>
        /\ RangeOf(cli.successful) \cap DOMAIN cli.failed_with_errors = {}
        /\ OutcomeConsistent

\* C30 amended: the same, the disjointness for a requested list that names no
\* reference twice.
C30_OutcomeDisjointNoRepeat ==
    cli.pc = "done" =>
        /\ NoDup(mod_references) =>
              RangeOf(cli.successful) \cap DOMAIN cli.failed_with_errors = {}
        /\ OutcomeConsistent

\* C30 witness: a run over two different references whose profile step
\* failed outright
C30_Witness ==
    /\ cli.pc = "done"
    /\ NRefs = 2 /\ mod_references[1] # mod_references[2]
    /\ Len(cli.log) = 2
    /\ cli.log[2].returncode = 1 /\ cli.log[2].output = "unknown mod"
    /\ DOMAIN cli.failed_with_errors = RangeOf(mod_references)

\* C31: install_mods reports a reference as succeeded only if the apply step
\* of the run succeeded: when the link of the profile or the apply step
\* fails, the succeeded list is empty.
C31_SucceededOnlyAfterApply ==
    (/\ cli.pc = "done"
     /\ Len(cli.log) > 0
     /\ cli.log[Len(cli.log)].step \in {"installation set-profile", "apply"}
     /\ ~cli.log[Len(cli.log)].success)
    => cli.successful = <<>>

\* ------------------------------------------------------------------------
\* Properties of the direct calls on a new PreVerifyInstaller (checked under
\* SpecCalls)
\* ------------------------------------------------------------------------
\* C35: phase4_install_missing called before any gap analysis returns the
\* failed phase result "Gap analysis not performed", downloads nothing and
\* leaves the Mods directory as it was.
C35_Phase4NeedsGapAnalysis ==
    (last_call.op = "phase4_install_missing" /\ gap_analysis = NoGapAnalysis) =>
        /\ last_call.phase = [phase_name |-> "Install Missing", success |-> FALSE,
                              message |-> "Gap analysis not performed"]
        /\ downloads = <<>>
        /\ disk = last_call.before

\* C35 witness: phase4_install_missing was called with no gap analysis on a
\* Mods directory in which A has an invalid directory
C35_Witness ==
    /\ last_call.op = "phase4_install_missing"
    /\ gap_analysis = NoGapAnalysis
    /\ disk["A"] = [exists |-> TRUE, files |-> {}]
    /\ ~last_call.phase.success

\* C36: verify_installation reports the installed and valid flags that
\* check_mod reports for the same mod directory, whatever its state.
C36_VerifyAgreesWithCheckMod ==
    last_call.op = "verify_installation" =>
        LET dir == last_call.before[last_call.refs[1]] IN
        /\ last_call.status.installed = check_mod(dir).installed
        /\ last_call.status.valid = check_mod(dir).valid

\* C37: the content root is the subdirectory named after the mod when there
\* is one; else the extraction root when a manifest lies directly in it;
\* else the only subdirectory when there is exactly one; else the extraction
\* root.
C37_ContentRootByFirstRule ==
    last_call.op = "_extract_and_install" =>
        LET tree == last_call.tree
            chosen == last_call.source_dir
        IN  /\ tree.mod_subfolder.exists => chosen = "mod_subfolder"
            /\ (~tree.mod_subfolder.exists /\ "uplugin" \in tree.root_files)
                  => chosen = "extract_dir"
            /\ (~tree.mod_subfolder.exists /\ "uplugin" \notin tree.root_files
                   /\ Len(tree.subdirs) = 1)
                  => chosen = "sole_subdir"
            /\ (~tree.mod_subfolder.exists /\ "uplugin" \notin tree.root_files
                   /\ Len(tree.subdirs) # 1)
                  => chosen = "extract_dir"

\* C37 witness: the archive holds a manifest in its root and a subdirectory
\* named after the mod; the subdirectory was installed
C37_Witness ==
    /\ last_call.op = "_extract_and_install"
    /\ last_call.tree.mod_subfolder = [exists |-> TRUE, files |-> {"uplugin", "pak"}]
    /\ "uplugin" \in last_call.tree.root_files
    /\ Len(last_call.tree.subdirs) = 1
    /\ last_call.source_dir = "mod_subfolder"
    /\ last_call.result.at = "return"
    /\ disk["A"] = [exists |-> TRUE, files |-> {"uplugin", "pak"}]

\* ------------------------------------------------------------------------
\* Properties of the worker of the Install button (checked under
\* SpecWorkflow)
\* ------------------------------------------------------------------------
\* C33: the cleanup phase removes the directory of no reference that the
\* same run then resolves as needed, so no needed mod that was valid before
\* the cleanup is downloaded again.
C33_CleanupKeepsNeeded ==
    (last_call.op = "cleanup_obsolete_mods" /\ pc \notin {"gui_start", "idle", "resolving"}) =>
        /\ \A ref \in RangeOf(last_call.out1) : ref \notin RangeOf(RefsOf(resolved_mods))
        /\ \A ref \in RangeOf(downloads) : ~check_mod(last_call.before[ref]).valid

\* ------------------------------------------------------------------------
\* Properties of ModInstallerApp (checked under SpecGui)
\* ------------------------------------------------------------------------
\* the worker threads that have not yet handed over their completion
RunsInFlight == {i \in 1..Len(gui.workers) : InFlight(gui.workers[i])}

\* C22: at most one install or update worker is in flight at any time,
\* whatever the order of Install clicks, Update clicks, worker steps and
\* completion callbacks: while one is in flight is_installing is set and no
\* handler starts another.
C22_OneRunInFlight ==
    /\ Cardinality(RunsInFlight) <= 1
    /\ RunsInFlight # {} => gui.is_installing

\* C22 witness: a click was refused, the first worker has completed and a
\* second worker of the other kind is in flight
C22_Witness ==
    /\ gui.refused
    /\ Len(gui.workers) = 2
    /\ gui.workers[1].kind = "install" /\ ~InFlight(gui.workers[1])
    /\ gui.workers[2].kind = "update" /\ InFlight(gui.workers[2])
    /\ gui.queue = <<>>

\* C34: whenever is_installing is set it is reset later, on every path of
\* the handlers and the workers, so that a later installation can start.
C34_InstallingIsReset == gui.is_installing ~> ~gui.is_installing

\* ------------------------------------------------------------------------
\* Properties of the update workflow (checked under SpecUpdate)
\* ------------------------------------------------------------------------
\* the two caches agree on the identifier: both have no entry or the same one
SameEntry(c1, c2, x) ==
    /\ x \in DOMAIN c1 <=> x \in DOMAIN c2
    /\ x \in DOMAIN c1 => c1[x] = c2[x]

\* C38: an iteration of the update loop invalidates a cache entry only on
\* demand: after a successful update the entry of the identifier is gone;
\* after a failed one (no versions, no download URL, failed install) it is
\* not invalidated, that is it holds the list the lookup answered and, when
\* there was an entry before, that same entry; the entries of the other
\* identifiers are as they were.
C38_InvalidatedOnlyOnSuccess ==
    LET l == gui.last IN
    l.mod_ref # None =>
        /\ \A x \in UpdateIds \ {l.mod_ref} : SameEntry(l.before, l.after, x)
        /\ l.outcome = "updated" => l.mod_ref \notin DOMAIN l.after
        /\ l.outcome # "updated" =>
              /\ l.mod_ref \in DOMAIN l.after
              /\ l.after[l.mod_ref] = l.versions
              /\ l.mod_ref \in DOMAIN l.before => SameEntry(l.before, l.after, l.mod_ref)
        /\ gui.version_cache = l.after

\* C38 witness: A was updated and its entry is gone, then the install of B
\* failed and the entry B had before is still there, unlike what the API
\* answers now
C38_Witness ==
    /\ mod_references = <<"A", "B">>
    /\ gui.success_count = 1
    /\ gui.last.mod_ref = "B"
    /\ gui.last.outcome = "install_failed"
    /\ "A" \notin DOMAIN gui.version_cache
    /\ "B" \in DOMAIN gui.last.before
    /\ gui.version_cache["B"] # gui.api["B"]

\* ------------------------------------------------------------------------
\* Properties of install.py (checked under SpecServer)
\* ------------------------------------------------------------------------
\* C39: when install.py exits, every listed mod was attempted exactly once,
\* in ascending order of priority, whatever the earlier attempts returned,
\* and the exit status is 0 iff every attempt returned True.
C39_AllAttemptedInPriorityOrder ==
    pc = "exited" =>
        /\ \A m \in ModsListEntries :
              Occurrences(server.attempted, m) = Occurrences(server.listed, m)
        /\ \A i, j \in 1..Len(server.attempted) :
              i < j => priority_key(server.attempted[i]) <= priority_key(server.attempted[j])
        /\ server.exit_status = 0 <=>
              \A i \in 1..Len(server.returned) : server.returned[i] = "True"

\* C40: after install_mod returned, True or False, temp_downloads holds
\* neither the archive nor the extraction directory of the mod.
C40_TempDownloadsCleared ==
    LET n == Len(server.attempted) IN
    (n > 0 /\ server.returned[n] # "raised") =>
        LET temp == server.temp[server.attempted[n].mod_reference]
        IN ~temp.smod /\ ~temp.extract_dir

====
